---- MODULE Spec2Model ----
(***************************************************************************)
(* CoreLogger: the text-scoring engine of src/services/nlp_analyzer.py     *)
(* (NLPAnalyzer, EnhancedThoughtScorer) as a state machine of calls made   *)
(* by concurrent callers on one shared scorer instance, and around it the  *)
(* thought store (ThoughtLogger), the exporter, the chat interface and     *)
(* the AI providers.                                                       *)
(*                                                                         *)
(* Text.  A Python str is a sequence of characters; a character is a       *)
(* one-letter TLA+ string, except for three characters that TLA+ strings   *)
(* cannot spell: "BS" (U+0008, backspace), "U+0130" (capital I with dot    *)
(* above) and "U+0307" (combining dot above).                              *)
(*                                                                         *)
(* Numbers.  A Python float is a fixed-point integer in units of 1/FSCALE, *)
(* every division rounding down; a weight is an integer in units of        *)
(* 1/WSCALE.  A division by zero yields ZeroDivisionError, which is how a  *)
(* call that raises is told from one that returns.                         *)
(*                                                                         *)
(* Values.  A value that is used more than once after a long computation   *)
(* is bound by a quantifier over a one-element set, x \in {e}, which       *)
(* computes e once.                                                        *)
(***************************************************************************)
EXTENDS Integers, Sequences, FiniteSets, TLC

(***************************************************************************)
(* Characters and the str methods the analyzer uses                        *)
(***************************************************************************)
UPPER == <<"A","B","C","D","E","F","G","H","I","J","K","L","M",
           "N","O","P","Q","R","S","T","U","V","W","X","Y","Z">>

LOWER == <<"a","b","c","d","e","f","g","h","i","j","k","l","m",
           "n","o","p","q","r","s","t","u","v","w","x","y","z">>

DIGITS == {"0","1","2","3","4","5","6","7","8","9"}

Range(s) == {s[i] : i \in DOMAIN s}

\* str.isspace(): the characters str.split() splits on
IsSpace(c) == c \in {" ", "\t", "\n", "\r", "\f"}

UpperLetters == Range(UPPER)
AsciiLetters == Range(UPPER) \cup Range(LOWER)

\* [a-zA-Z] of the keyword pattern
IsAsciiLetter(c) == c \in AsciiLetters

\* \w of a str pattern: alphanumerics and the underscore
IsWordChar(c) == IsAsciiLetter(c) \/ c \in DIGITS \/ c = "_" \/ c = "U+0130"

\* str.lower() of one character: U+0130 lowers to two characters
LowerOf == [c \in UpperLetters |-> LOWER[CHOOSE i \in DOMAIN UPPER : UPPER[i] = c]]

LowerChar(c) ==
    IF c \in UpperLetters THEN <<LowerOf[c]>>
    ELSE IF c = "U+0130" THEN <<"i", "U+0307">> ELSE <<c>>

RECURSIVE Lower(_)
\* str.lower(): each character lowered, the two halves of the text in turn
Lower(text) ==
    IF text = <<>> THEN <<>>
    ELSE IF Len(text) = 1 THEN LowerChar(text[1])
    ELSE LET half == Len(text) \div 2 IN
         Lower(SubSeq(text, 1, half)) \o Lower(SubSeq(text, half + 1, Len(text)))

\* the least element of a non-empty set of integers
Least(S) == CHOOSE k \in S : \A m \in S : k <= m

RECURSIVE SplitFrom(_, _)
\* the words of text[i..]: a word starts at the first character that is not
\* whitespace and ends before the next one that is
SplitFrom(text, i) ==
    LET starts == {j \in i .. Len(text) : ~IsSpace(text[j])} IN
    IF starts = {} THEN <<>>
    ELSE LET s == Least(starts)
             stops == {j \in s .. Len(text) : IsSpace(text[j])}
             e == IF stops = {} THEN Len(text) + 1 ELSE Least(stops)
         IN  <<SubSeq(text, s, e - 1)>> \o SplitFrom(text, e)

\* str.split(): the maximal runs of non-whitespace characters
Split(text) == SplitFrom(text, 1)

RECURSIVE SplitOnFrom(_, _, _)
\* the segments of text[i..], a segment ending before each separator
SplitOnFrom(text, sep, i) ==
    LET seps == {j \in i .. Len(text) : text[j] = sep} IN
    IF seps = {} THEN <<SubSeq(text, i, Len(text))>>
    ELSE LET j == Least(seps) IN
         <<SubSeq(text, i, j - 1)>> \o SplitOnFrom(text, sep, j + 1)

\* str.split(sep): one more segment than separators, empty segments kept
SplitOn(text, sep) == SplitOnFrom(text, sep, 1)

RECURSIVE Str(_)
\* a character sequence as one value (a str used as a set element or key)
Str(cs) ==
    IF cs = <<>> THEN ""
    ELSE IF Len(cs) = 1 THEN cs[1]
    ELSE LET half == Len(cs) \div 2 IN
         Str(SubSeq(cs, 1, half)) \o Str(SubSeq(cs, half + 1, Len(cs)))

RECURSIVE JoinSpace(_)
\* ' '.join(words)
JoinSpace(words) ==
    IF words = <<>> THEN ""
    ELSE IF Len(words) = 1 THEN Str(words[1])
    ELSE Str(words[1]) \o " " \o JoinSpace(Tail(words))

RECURSIVE SumLen(_)
\* sum(len(word) for word in words)
SumLen(words) == IF words = <<>> THEN 0 ELSE Len(Head(words)) + SumLen(Tail(words))

RECURSIVE SetToList(_)
\* list(set): each element once, in an order the caller does not control
SetToList(S) ==
    IF S = {} THEN <<>>
    ELSE LET x == CHOOSE y \in S : TRUE IN <<x>> \o SetToList(S \ {x})

\* Counter(xs): each distinct element with its number of occurrences
Counter(xs) == [k \in Range(xs) |-> Cardinality({i \in DOMAIN xs : xs[i] = k})]

Min(a, b) == IF a <= b THEN a ELSE b
Max(a, b) == IF a >= b THEN a ELSE b

(***************************************************************************)
(* Numbers and call outcomes                                               *)
(***************************************************************************)
\* the unit of a float: 1/FSCALE (500 divides it, as do 1..6, 10 and 20)
FSCALE == 12 * 500

\* the unit of a weight: 1/WSCALE
WSCALE == 10 * 10

\* the unit of a binary logarithm: 1/LSCALE = 2^-LBITS
LBITS == 5 + 5
LSCALE == 2 ^ LBITS

\* the outcome of a call or of an expression: a value, or an exception
Ret(v) == [exc |-> "", v |-> v]
Raise(e) == [exc |-> e, v |-> 0]
Raised(x) == x.exc # ""

\* the rest of a computation runs only when the expression before it returned
Bind(x, F(_)) == IF Raised(x) THEN x ELSE F(x.v)

\* int / int -> float
TrueDiv(n, d) ==
    IF d = 0 THEN Raise("ZeroDivisionError") ELSE Ret((n * FSCALE) \div d)

\* float / int -> float
FloatDiv(x, d) ==
    IF d = 0 THEN Raise("ZeroDivisionError") ELSE Ret(x \div d)

RECURSIVE FloorLog2(_)
FloorLog2(n) == IF n <= 1 THEN 0 ELSE 1 + FloorLog2(n \div 2)

RECURSIVE Log2Bits(_, _)
\* the LBITS fraction bits of log2(y / 2^14), 2^14 <= y < 2^15, by squaring
Log2Bits(y, k) ==
    IF k > LBITS THEN 0
    ELSE LET sq == (y * y) \div (2 ^ 14) IN
         IF sq >= 2 ^ 15
         THEN 2 ^ (LBITS - k) + Log2Bits(sq \div 2, k + 1)
         ELSE Log2Bits(sq, k + 1)

\* math.log2 of the float x: a math domain error unless x > 0
Log2(x) ==
    IF x <= 0 THEN Raise("ValueError")
    ELSE LET e == FloorLog2(x)
             m == FloorLog2(FSCALE)
         IN  Ret((e * LSCALE + Log2Bits((x * 2 ^ 14) \div (2 ^ e), 1))
                 - (m * LSCALE + Log2Bits((FSCALE * 2 ^ 14) \div (2 ^ m), 1)))

(***************************************************************************)
(* NLPAnalyzer                                                             *)
(***************************************************************************)
\* self.stop_words as NLPAnalyzer.__init__ builds it
StopWords ==
    {"a", "an", "and", "are", "as", "at", "be", "by", "for", "from",
     "has", "he", "in", "is", "it", "its", "of", "on", "that", "the",
     "to", "was", "will", "with", "i", "you", "we", "they", "this",
     "but", "or", "not", "have", "had", "what", "when", "where", "who",
     "which", "why", "how", "all", "any", "both", "each", "few", "more",
     "most", "other", "some", "such", "no", "nor", "only", "own", "same",
     "so", "than", "too", "very", "can", "could", "should", "would"}

\* NLPAnalyzer(): the instance, its one attribute set
NLPAnalyzer_init == [stop_words |-> StopWords]

\* \b at the place before s[i], 1 <= i <= Len(s) + 1
WordBoundary(s, i) ==
    (i > 1 /\ IsWordChar(s[i - 1])) # (i <= Len(s) /\ IsWordChar(s[i]))

RECURSIVE LetterRun(_, _)
\* the number of ASCII letters from s[i] on
LetterRun(s, i) ==
    IF i <= Len(s) /\ IsAsciiLetter(s[i]) THEN 1 + LetterRun(s, i + 1) ELSE 0

RECURSIVE FindAllFrom(_, _, _)
FindAllFrom(s, min_length, i) ==
    IF i > Len(s) THEN <<>>
    ELSE LET r == LetterRun(s, i) IN
         IF /\ WordBoundary(s, i)
            /\ r >= min_length
            /\ i + r <= Len(s)
            /\ s[i + r] = "BS"
         THEN <<Str(SubSeq(s, i, i + r))>> \o FindAllFrom(s, min_length, i + r + 1)
         ELSE FindAllFrom(s, min_length, i + 1)

\* re.findall(r'\b[a-zA-Z]{' + str(min_length) + ',}\b', s), min_length >= 0.
\* The pattern's last piece is not a raw string, so its '\b' is the backspace
\* character: a match is a word boundary, a whole run of at least min_length
\* ASCII letters and the backspace that follows it, backspace included.
FindAll(s, min_length) == FindAllFrom(s, min_length, 1)

\* [word for word in words if word not in self.stop_words]
FilterStopWords(self, words) ==
    SelectSeq(words, LAMBDA word : word \notin self.stop_words)

\* list(set(keywords))
UniqueKeywords(keywords) == SetToList(Range(keywords))

extract_keywords(self, text, min_length) ==
    UniqueKeywords(FilterStopWords(self, FindAll(Lower(text), min_length)))

RECURSIVE DensityLoop(_, _, _, _)
\* for keyword, count in keyword_counts.items(): densities[keyword] = ...
DensityLoop(keyword_counts, items, total_words, densities) ==
    IF items = <<>> THEN Ret(densities)
    ELSE LET keyword == Head(items) IN
         Bind(TrueDiv(keyword_counts[keyword], total_words), LAMBDA d :
              DensityLoop(keyword_counts, Tail(items), total_words,
                          [k \in DOMAIN densities \cup {keyword} |->
                              IF k = keyword THEN d ELSE densities[k]]))

\* the rest of calculate_keyword_density once extract_keywords has returned
DensityOf(keywords, text) ==
    LET total_words == Len(Split(text)) IN
    IF total_words = 0 THEN Ret(<<>>)
    ELSE LET keyword_counts == Counter(keywords) IN
         DensityLoop(keyword_counts, SetToList(DOMAIN keyword_counts),
                     total_words, <<>>)

calculate_keyword_density(self, text) ==
    DensityOf(extract_keywords(self, text, 3), text)

\* the occurrences counted over the characters of the text, not over its words
repetition_counts_characters(text) ==
    LET words == Split(Lower(text)) IN
    IF Len(words) <= 1 THEN Ret(0)
    ELSE LET unique_words == Cardinality(Range(Lower(text)))
             total_words == Len(words)
         IN  Bind(TrueDiv(unique_words, total_words), LAMBDA ratio :
                  Ret(Min(FSCALE - ratio, FSCALE)))

\* the words split from the text as written, not lower-cased
repetition_case_sensitive(text) ==
    LET words == Split(text) IN
    IF Len(words) <= 1 THEN Ret(0)
    ELSE LET unique_words == Cardinality(Range(words))
             total_words == Len(words)
         IN  Bind(TrueDiv(unique_words, total_words), LAMBDA ratio :
                  Ret(Min(FSCALE - ratio, FSCALE)))

calculate_repetition_score(text) ==
    LET words == Split(Lower(text)) IN
    IF Len(words) <= 1 THEN Ret(0)
    ELSE LET unique_words == Cardinality(Range(words))
             total_words == Len(words)
         IN  Bind(TrueDiv(unique_words, total_words), LAMBDA ratio :
                  Ret(Min(FSCALE - ratio, FSCALE)))

RECURSIVE EntropyLoop(_, _, _, _)
\* for count in char_counts.values(): ... entropy -= p * math.log2(p)
EntropyLoop(char_counts, chars, total_chars, entropy) ==
    IF chars = <<>> THEN Ret(entropy)
    ELSE Bind(TrueDiv(char_counts[Head(chars)], total_chars), LAMBDA probability :
              IF probability > 0
              THEN Bind(Log2(probability), LAMBDA lg :
                        EntropyLoop(char_counts, Tail(chars), total_chars,
                                    entropy - ((probability * lg) \div LSCALE)))
              ELSE EntropyLoop(char_counts, Tail(chars), total_chars, entropy))

calculate_entropy(text) ==
    IF text = <<>> THEN Ret(0)
    ELSE LET char_counts == Counter(Lower(text)) IN
         EntropyLoop(char_counts, SetToList(DOMAIN char_counts), Len(text), 0)

\* words[i:j] for 0 <= i, 0 <= j (0-based, clamped as Python slices are)
Slice(words, i, j) == SubSeq(words, i + 1, Min(j, Len(words)))

\* the loop one window short: range(len(words) - n)
extract_ngrams_one_short(text, n) ==
    LET words == Split(Lower(text)) IN
    IF Len(words) < n THEN <<>>
    ELSE [i \in 1 .. (Len(words) - n) |->
             JoinSpace(Slice(words, i - 1, i - 1 + n))]

extract_ngrams(text, n) ==
    LET words == Split(Lower(text)) IN
    IF Len(words) < n THEN <<>>
    ELSE [i \in 1 .. (Len(words) - n + 1) |->
             JoinSpace(Slice(words, i - 1, i - 1 + n))]


RECURSIVE OverlapLoopSum(_, _, _, _)
\* max_possible taken as the sum of the two sizes
OverlapLoopSum(current_ngrams, existing_texts, ngram_size, total_overlap) ==
    IF existing_texts = <<>> THEN Ret(total_overlap)
    ELSE LET existing_ngrams == Range(extract_ngrams(Head(existing_texts), ngram_size))
             overlap == Cardinality(current_ngrams \cap existing_ngrams)
             max_possible == Cardinality(current_ngrams) + Cardinality(existing_ngrams)
         IN  IF existing_ngrams # {} /\ max_possible > 0
             THEN Bind(TrueDiv(overlap, max_possible), LAMBDA ratio :
                       OverlapLoopSum(current_ngrams, Tail(existing_texts),
                                      ngram_size, total_overlap + ratio))
             ELSE OverlapLoopSum(current_ngrams, Tail(existing_texts),
                                 ngram_size, total_overlap)

RECURSIVE OverlapLoop(_, _, _, _)
\* for existing_text in existing_texts: ... total_overlap += overlap / max_possible
OverlapLoop(current_ngrams, existing_texts, ngram_size, total_overlap) ==
    IF existing_texts = <<>> THEN Ret(total_overlap)
    ELSE LET existing_ngrams == Range(extract_ngrams(Head(existing_texts), ngram_size))
             overlap == Cardinality(current_ngrams \cap existing_ngrams)
             max_possible == Max(Cardinality(current_ngrams),
                                 Cardinality(existing_ngrams))
         IN  IF existing_ngrams # {} /\ max_possible > 0
             THEN Bind(TrueDiv(overlap, max_possible), LAMBDA ratio :
                       OverlapLoop(current_ngrams, Tail(existing_texts),
                                   ngram_size, total_overlap + ratio))
             ELSE OverlapLoop(current_ngrams, Tail(existing_texts),
                              ngram_size, total_overlap)


\* the two early returns in the other order
novelty_short_text_first(current_text, existing_texts, ngram_size) ==
    LET current_ngrams == Range(extract_ngrams(current_text, ngram_size)) IN
    IF current_ngrams = {} THEN Ret(FSCALE \div 2)
    ELSE IF existing_texts = <<>> THEN Ret(FSCALE)
    ELSE Bind(OverlapLoop(current_ngrams, existing_texts, ngram_size, 0),
              LAMBDA total_overlap :
         Bind(FloatDiv(total_overlap, Len(existing_texts)),
              LAMBDA avg_overlap :
              Ret(Max(0, FSCALE - Min(avg_overlap, FSCALE)))))

\* the average taken over the references that have n-grams
novelty_mean_of_contributing(current_text, existing_texts, ngram_size) ==
    IF existing_texts = <<>> THEN Ret(FSCALE)
    ELSE LET current_ngrams == Range(extract_ngrams(current_text, ngram_size))
             contributing ==
                 Cardinality({i \in DOMAIN existing_texts :
                                 extract_ngrams(existing_texts[i], ngram_size) # <<>>})
         IN
         IF current_ngrams = {} THEN Ret(FSCALE \div 2)
         ELSE Bind(OverlapLoop(current_ngrams, existing_texts, ngram_size, 0),
                   LAMBDA total_overlap :
              Bind(IF contributing # 0
                   THEN FloatDiv(total_overlap, contributing)
                   ELSE Ret(0),
                   LAMBDA avg_overlap :
                   Ret(Max(0, FSCALE - Min(avg_overlap, FSCALE)))))

calculate_novelty_score(current_text, existing_texts, ngram_size) ==
    IF existing_texts = <<>> THEN Ret(FSCALE)
    ELSE LET current_ngrams == Range(extract_ngrams(current_text, ngram_size)) IN
         IF current_ngrams = {} THEN Ret(FSCALE \div 2)
         ELSE Bind(OverlapLoop(current_ngrams, existing_texts, ngram_size, 0),
                   LAMBDA total_overlap :
              Bind(IF existing_texts # <<>>
                   THEN FloatDiv(total_overlap, Len(existing_texts))
                   ELSE Ret(0),
                   LAMBDA avg_overlap :
                   Ret(Max(0, FSCALE - Min(avg_overlap, FSCALE)))))

positive_words ==
    {"good", "great", "excellent", "amazing", "wonderful", "fantastic",
     "love", "like", "enjoy", "happy", "excited", "pleased", "satisfied",
     "awesome", "brilliant", "perfect", "success", "achievement", "win"}

negative_words ==
    {"bad", "terrible", "awful", "horrible", "hate", "dislike", "sad",
     "angry", "frustrated", "disappointed", "failed", "failure", "wrong",
     "error", "problem", "issue", "difficult", "hard", "struggle"}

\* the words kept as a list, each occurrence counted
sentiment_counts_occurrences(text) ==
    LET lowered == Split(Lower(text))
        positive_count ==
            Cardinality({i \in DOMAIN lowered : Str(lowered[i]) \in positive_words})
        negative_count ==
            Cardinality({i \in DOMAIN lowered : Str(lowered[i]) \in negative_words})
        total_sentiment_words == positive_count + negative_count
    IN  IF total_sentiment_words = 0 THEN Ret(<<"neutral", FSCALE \div 2>>)
        ELSE Bind(TrueDiv(positive_count, total_sentiment_words),
                  LAMBDA sentiment_score :
                  IF sentiment_score > (6 * FSCALE) \div 10
                  THEN Ret(<<"positive", sentiment_score>>)
                  ELSE IF sentiment_score < (4 * FSCALE) \div 10
                  THEN Ret(<<"negative", FSCALE - sentiment_score>>)
                  ELSE Ret(<<"neutral", FSCALE \div 2>>))

RECURSIVE StripPunctuation(_)
\* word.rstrip('?!.,;:')
StripPunctuation(word) ==
    IF word # <<>> /\ word[Len(word)] \in {"?", "!", ".", ",", ";", ":"}
    THEN StripPunctuation(SubSeq(word, 1, Len(word) - 1))
    ELSE word

\* the words stripped of their trailing punctuation before they are looked up
sentiment_strips_punctuation(text) ==
    LET lowered == Split(Lower(text))
        words == {Str(StripPunctuation(lowered[i])) : i \in DOMAIN lowered}
        positive_count == Cardinality(words \cap positive_words)
        negative_count == Cardinality(words \cap negative_words)
        total_sentiment_words == positive_count + negative_count
    IN  IF total_sentiment_words = 0 THEN Ret(<<"neutral", FSCALE \div 2>>)
        ELSE Bind(TrueDiv(positive_count, total_sentiment_words),
                  LAMBDA sentiment_score :
                  IF sentiment_score > (6 * FSCALE) \div 10
                  THEN Ret(<<"positive", sentiment_score>>)
                  ELSE IF sentiment_score < (4 * FSCALE) \div 10
                  THEN Ret(<<"negative", FSCALE - sentiment_score>>)
                  ELSE Ret(<<"neutral", FSCALE \div 2>>))

\* returns (label, strength)
analyze_sentiment_basic(text) ==
    LET lowered == Split(Lower(text))
        words == {Str(lowered[i]) : i \in DOMAIN lowered}
        positive_count == Cardinality(words \cap positive_words)
        negative_count == Cardinality(words \cap negative_words)
        total_sentiment_words == positive_count + negative_count
    IN  IF total_sentiment_words = 0 THEN Ret(<<"neutral", FSCALE \div 2>>)
        ELSE Bind(TrueDiv(positive_count, total_sentiment_words),
                  LAMBDA sentiment_score :
                  IF sentiment_score > (6 * FSCALE) \div 10
                  THEN Ret(<<"positive", sentiment_score>>)
                  ELSE IF sentiment_score < (4 * FSCALE) \div 10
                  THEN Ret(<<"negative", FSCALE - sentiment_score>>)
                  ELSE Ret(<<"neutral", FSCALE \div 2>>))


\* the sentences counted without the empty segments
complexity_nonempty_sentences(text) ==
    IF text = <<>> THEN Ret(0)
    ELSE LET words == Split(text)
             sentences == SelectSeq(SplitOn(text, "."), LAMBDA s : s # <<>>)
         IN
         Bind(IF words # <<>> THEN TrueDiv(SumLen(words), Len(words)) ELSE Ret(0),
              LAMBDA avg_word_length :
         Bind(IF sentences # <<>> THEN TrueDiv(Len(words), Len(sentences)) ELSE Ret(0),
              LAMBDA avg_sentence_length :
         Bind(IF words # <<>> THEN TrueDiv(Cardinality(Range(words)), Len(words))
              ELSE Ret(0),
              LAMBDA vocab_richness :
              LET word_complexity == Min(avg_word_length \div 10, FSCALE)
                  sentence_complexity == Min(avg_sentence_length \div 20, FSCALE)
                  complexity == (word_complexity * 3) \div 10
                                + (sentence_complexity * 4) \div 10
                                + (vocab_richness * 3) \div 10
              IN  Ret(Min(complexity, FSCALE)))))

\* the three averages without their "if words else 0"
complexity_unguarded(text) ==
    IF text = <<>> THEN Ret(0)
    ELSE LET words == Split(text)
             sentences == SplitOn(text, ".")
         IN
         Bind(TrueDiv(SumLen(words), Len(words)), LAMBDA avg_word_length :
         Bind(TrueDiv(Len(words), Len(sentences)), LAMBDA avg_sentence_length :
         Bind(TrueDiv(Cardinality(Range(words)), Len(words)), LAMBDA vocab_richness :
              LET word_complexity == Min(avg_word_length \div 10, FSCALE)
                  sentence_complexity == Min(avg_sentence_length \div 20, FSCALE)
                  complexity == (word_complexity * 3) \div 10
                                + (sentence_complexity * 4) \div 10
                                + (vocab_richness * 3) \div 10
              IN  Ret(Min(complexity, FSCALE)))))

calculate_complexity_score(text) ==
    IF text = <<>> THEN Ret(0)
    ELSE LET words == Split(text)
             sentences == SplitOn(text, ".")
         IN
         Bind(IF words # <<>> THEN TrueDiv(SumLen(words), Len(words)) ELSE Ret(0),
              LAMBDA avg_word_length :
         Bind(IF sentences # <<>> THEN TrueDiv(Len(words), Len(sentences)) ELSE Ret(0),
              LAMBDA avg_sentence_length :
         Bind(IF words # <<>> THEN TrueDiv(Cardinality(Range(words)), Len(words))
              ELSE Ret(0),
              LAMBDA vocab_richness :
              LET word_complexity == Min(avg_word_length \div 10, FSCALE)
                  sentence_complexity == Min(avg_sentence_length \div 20, FSCALE)
                  complexity == (word_complexity * 3) \div 10
                                + (sentence_complexity * 4) \div 10
                                + (vocab_richness * 3) \div 10
              IN  Ret(Min(complexity, FSCALE)))))

(***************************************************************************)
(* EnhancedThoughtScorer                                                   *)
(***************************************************************************)
\* EnhancedThoughtScorer(): self.nlp = NLPAnalyzer()
EnhancedThoughtScorer_init == [nlp |-> NLPAnalyzer_init]

\* an Optional[List[str]] argument: None, or a list
None == [is_none |-> TRUE, list |-> <<>>]
Some(list) == [is_none |-> FALSE, list |-> list]

\* the truth value Python gives an Optional[List]: None and [] are false
Truthy(x) == ~x.is_none /\ x.list # <<>>

\* the default weights of calculate_enhanced_importance
DefaultWeights ==
    [length |-> 20, complexity |-> 25, novelty |-> 30, sentiment |-> 15,
     entropy |-> 10]

\* the ratio taken the other way round: min(500 / len(content), 1.0)
LengthFactorInverted(content) ==
    Bind(TrueDiv(500, Len(content)), LAMBDA x : Ret(Min(x, FSCALE)))

\* length_factor = min(len(content) / 500, 1.0)
LengthFactor(content) ==
    Bind(TrueDiv(Len(content), 500), LAMBDA x : Ret(Min(x, FSCALE)))

\* complexity_factor = self.nlp.calculate_complexity_score(content)
ComplexityFactor(content) == calculate_complexity_score(content)

\* the n-gram size left to extract_ngrams' own default, 2
NoveltyFactorBigrams(content, existing_content) ==
    IF Truthy(existing_content)
    THEN calculate_novelty_score(content, existing_content.list, 2)
    ELSE Ret(FSCALE)

\* novelty_factor = 1.0, or the novelty score when existing_content is true
NoveltyFactor(content, existing_content) ==
    IF Truthy(existing_content)
    THEN calculate_novelty_score(content, existing_content.list, 3)
    ELSE Ret(FSCALE)

\* the neutral strength passed through: no 0.3 for a neutral text
SentimentFactorAsReturned(content) ==
    Bind(analyze_sentiment_basic(content), LAMBDA s : Ret(s[2]))

\* sentiment_factor = 0.3 for a neutral text, else the sentiment strength
SentimentFactor(content) ==
    Bind(analyze_sentiment_basic(content), LAMBDA s :
         IF s[1] = "neutral" THEN Ret((3 * FSCALE) \div 10) ELSE Ret(s[2]))

\* entropy_factor = min(entropy / 5, 1.0)
EntropyFactor(content) ==
    Bind(calculate_entropy(content), LAMBDA entropy :
         Ret(Min(entropy \div 5, FSCALE)))


\* the clamp without its lower bound: min(importance, 1.0)
ClampUpperOnly(importance) == Min(importance, FSCALE)

\* importance = max(0.0, min(importance, 1.0))
Clamp(importance) == Max(0, Min(importance, FSCALE))


\* the metrics mapping filled before the clamp
CombineUnclamped(f, weights) ==
    LET raw == (f.length_factor * weights.length) \div WSCALE
               + (f.complexity_factor * weights.complexity) \div WSCALE
               + (f.novelty_factor * weights.novelty) \div WSCALE
               + (f.sentiment_factor * weights.sentiment) \div WSCALE
               + (f.entropy_factor * weights.entropy) \div WSCALE
    IN  <<Clamp(raw),
          [length_factor |-> f.length_factor,
           complexity_factor |-> f.complexity_factor,
           novelty_factor |-> f.novelty_factor,
           sentiment_factor |-> f.sentiment_factor,
           entropy_factor |-> f.entropy_factor,
           final_importance |-> raw]>>

\* the weighted sum, its clamp and the metrics mapping
Combine(f, weights) ==
    LET importance ==
            Clamp((f.length_factor * weights.length) \div WSCALE
                  + (f.complexity_factor * weights.complexity) \div WSCALE
                  + (f.novelty_factor * weights.novelty) \div WSCALE
                  + (f.sentiment_factor * weights.sentiment) \div WSCALE
                  + (f.entropy_factor * weights.entropy) \div WSCALE)
    IN  <<importance,
          [length_factor |-> f.length_factor,
           complexity_factor |-> f.complexity_factor,
           novelty_factor |-> f.novelty_factor,
           sentiment_factor |-> f.sentiment_factor,
           entropy_factor |-> f.entropy_factor,
           final_importance |-> importance]>>

\* returns (importance, metrics)
calculate_enhanced_importance(self, content, weights, existing_content) ==
    IF content = <<>> THEN Ret(<<0, <<>>>>)
    ELSE Bind(LengthFactor(content), LAMBDA lf :
         Bind(ComplexityFactor(content), LAMBDA cf :
         Bind(NoveltyFactor(content, existing_content), LAMBDA nf :
         Bind(SentimentFactor(content), LAMBDA sf :
         Bind(EntropyFactor(content), LAMBDA ef :
              Ret(Combine([length_factor |-> lf, complexity_factor |-> cf,
                           novelty_factor |-> nf, sentiment_factor |-> sf,
                           entropy_factor |-> ef], weights)))))))

(***************************************************************************)
(* Callers.  Every caller goes through the one scorer the application      *)
(* holds (ThoughtLogger.nlp_scorer) and so through its one analyzer.       *)
(***************************************************************************)
VARIABLES
    nlp,    \* the analyzer of the shared scorer: nlp.stop_words
    pc,     \* pc[t]: where caller t is in its call
    call,   \* call[t]: the operation caller t invoked, with its arguments
    loc,    \* loc[t]: the local variables of caller t's call
    ret,    \* ret[t]: what caller t's call returned or raised
    settings,   \* config.settings, the features the application runs with
    db,     \* the rows of the thoughts table, in the order they were inserted
    now,    \* the timestamp the latest insert took from datetime.utcnow
    last,   \* the latest operation on the store: its arguments and outcome
    chat,   \* the ChatInterface: its fields and where its loop is
    env     \* what the providers find: API keys, installed libraries

\* the state of the scorer and of its callers
scorervars == <<nlp, pc, call, loc, ret>>

\* the state of the application around the scorer
appvars == <<settings, db, now, last, chat, env>>

vars == <<scorervars, appvars>>

Threads == {1, 2}
Main == CHOOSE t \in Threads : \A u \in Threads : t <= u

NoCall == [op |-> "", text |-> <<>>, n |-> 0, weights |-> DefaultWeights,
           refs |-> None]
NoLoc == [words |-> <<>>, keywords |-> <<>>,
          length_factor |-> 0, complexity_factor |-> 0, novelty_factor |-> 0,
          sentiment_factor |-> 0, entropy_factor |-> 0]
NoRet == Ret(0)

\* an Optional[float] and an Optional[str]: None, or a value
NoneFloat == [is_none |-> TRUE, v |-> 0]
SomeFloat(x) == [is_none |-> FALSE, v |-> x]
NoneStr == [is_none |-> TRUE, v |-> <<>>]
SomeStr(text) == [is_none |-> FALSE, v |-> text]

\* an Optional[int]
NoneInt == [is_none |-> TRUE, v |-> 0]
SomeInt(n) == [is_none |-> FALSE, v |-> n]

\* an Optional[str] that names a category
NoneName == [is_none |-> TRUE, v |-> ""]
SomeName(s) == [is_none |-> FALSE, v |-> s]

\* an Optional[List[str]]
NoneTags == [is_none |-> TRUE, v |-> <<>>]

\* the arguments of ThoughtQuery() left at their defaults
QueryDefaults ==
    [category |-> NoneName, tags |-> NoneTags, tag |-> NoneStr,
     emotion |-> NoneStr, min_importance |-> NoneFloat,
     max_importance |-> NoneFloat, start_date |-> NoneInt,
     end_date |-> NoneInt, search_term |-> NoneStr, search |-> NoneStr,
     page |-> 1, size |-> 10, order_by |-> "timestamp", order_desc |-> TRUE,
     created_after |-> NoneInt, created_before |-> NoneInt]

\* Settings(): the defaults of the feature switches
Settings_init ==
    [enable_emotions |-> TRUE, enable_importance_scoring |-> TRUE,
     default_importance |-> FSCALE \div 2]

\* no operation on the store yet
NoOp ==
    [served |-> 0, op |-> "", exc |-> "", id |-> 0, found |-> FALSE,
     count |-> 0, given |-> NoneFloat, limit |-> NoneFloat, windows |-> <<>>,
     format |-> <<>>, filters |-> QueryDefaults, thoughts |-> <<>>]

\* a call of the provider that returned text, and one that raised
Answered(text) == [exc |-> "", v |-> text]
RaisedWith(e, message) == [exc |-> e, v |-> message]

\* a provider that was not asked anything
NoProvider ==
    [stream |-> [chunks |-> <<>>, exc |-> ""], call |-> Answered(<<>>)]

\* ChatInterface.__init__: an empty history of at most 10 exchanges, and the
\* conversation not started; asked counts the inputs read, logged holds the
\* thoughts the last step of the loop added to the table
ChatInterface_init(logging, enable_history, enable_streaming) ==
    [logging |-> logging, enable_history |-> enable_history,
     enable_streaming |-> enable_streaming, max_history_length |-> 10,
     conversation_history |-> <<>>, conversation_active |-> FALSE,
     pc |-> "created", asked |-> 0, user_input |-> <<>>, prompt |-> <<>>,
     provider |-> NoProvider, reply |-> Answered(<<>>), logged |-> <<>>]

\* no keyword arguments, and no provider
NoKwargs == [names |-> {}, api_key |-> NoneStr]
NoObject == [class |-> "", api_key |-> NoneStr, client |-> FALSE]

\* nothing asked of get_provider yet, in an environment with no library and
\* no key
NoEnv ==
    [installed |-> {}, keys |-> {}, broken |-> {}, asked |-> FALSE,
     name |-> "", kwargs |-> NoKwargs, got |-> [exc |-> "", v |-> NoObject]]

\* the scorer's callers before their first call
ScorerIdle ==
    /\ nlp = EnhancedThoughtScorer_init.nlp
    /\ pc = [t \in Threads |-> "idle"]
    /\ call = [t \in Threads |-> NoCall]
    /\ loc = [t \in Threads |-> NoLoc]
    /\ ret = [t \in Threads |-> NoRet]

\* the store, the chat interface and the providers before their first use
AppIdle ==
    /\ settings = Settings_init
    /\ db = <<>>
    /\ now = 0
    /\ last = NoOp
    /\ chat = ChatInterface_init(TRUE, FALSE, FALSE)
    /\ env = NoEnv

Init == ScorerIdle /\ AppIdle

Finished(t) == pc[t] \in {"returned", "raised"}

(***************************************************************************)
(* Inputs                                                                  *)
(***************************************************************************)
MaxPieces == 3
MaxTokens == 4
MaxRefs == 2
MaxNgram == 3

RECURSIVE Flatten(_)
Flatten(ss) == IF ss = <<>> THEN <<>> ELSE Head(ss) \o Flatten(Tail(ss))

\* the texts made of at most n pieces
TextsOf(pieces, n) ==
    {Flatten(ss) : ss \in UNION {[1 .. k -> pieces] : k \in 0 .. n}}

\* the lists of at most n texts
ListsOf(texts, n) == UNION {[1 .. k -> texts] : k \in 0 .. n}

ExtractorPieces ==
    {<<"c", "a", "t", "BS">>, <<"T", "h", "e">>, <<"G", "o", "o", "d">>,
     <<"b", "a", "d">>, <<" ">>, <<".">>, <<"1">>, <<"U+0130">>}

ExtractorTexts == TextsOf(ExtractorPieces, MaxPieces)

NoveltyTexts == TextsOf({<<"a", " ">>, <<"B", " ">>}, MaxTokens)

NoveltyRefs ==
    {<<>>, <<"b">>, <<"a", " ", "b", " ", "a">>, <<"b", "\t", "a", " ", "B">>,
     <<"a", " ", "b", " ", "a", " ", "b">>, <<"A", " ", "a", " ", "a", " ", "a">>}

ScorerPieces ==
    {<<"g", "o", "o", "d", " ">>, <<"b", "a", "d", " ">>, <<"C", "a", "t", ".">>,
     <<" ">>}

ScorerTexts == TextsOf(ScorerPieces, MaxPieces)

RefGoodBadCat == <<"g", "o", "o", "d", " ", "b", "a", "d", " ", "c", "a", "t", ".">>
RefBadBadGood ==
    <<"b", "a", "d", " ", "b", "a", "d", " ", "g", "o", "o", "d", " ", "x">>

\* reference windows: absent, empty, and lists of texts with and without n-grams
ScorerWindows ==
    {None, Some(<<>>), Some(<<RefGoodBadCat>>), Some(<<RefBadBadGood>>),
     Some(<<RefBadBadGood, <<>>>>), Some(<<<<"x">>>>),
     Some(<<RefGoodBadCat, RefBadBadGood, RefGoodBadCat>>)}

\* weights are floats the scorer neither validates nor renormalises
WeightSamples ==
    {DefaultWeights,
     [length |-> 0, complexity |-> 0, novelty |-> 0, sentiment |-> 0, entropy |-> 0],
     [length |-> 100, complexity |-> 100, novelty |-> 100, sentiment |-> 100,
      entropy |-> 100],
     [length |-> -50, complexity |-> -25, novelty |-> -30, sentiment |-> -15,
      entropy |-> -10],
     [length |-> 300, complexity |-> -100, novelty |-> 30, sentiment |-> 0,
      entropy |-> 250]}

\* texts whose tokens differ by case only, or not at all
CaseTexts ==
    TextsOf({<<"a", " ">>, <<"A", " ">>, <<"b", "\t">>, <<"C", " ">>}, MaxTokens)

\* texts of lexicon words, in both cases, bare and with punctuation
SentimentPieces ==
    {<<"g", "o", "o", "d", " ", "G", "r", "e", "a", "t", " ">>,
     <<"L", "O", "V", "E", " ">>,
     <<"b", "a", "d", " ", "s", "a", "d", " ">>,
     <<"h", "a", "t", "e", "\t">>,
     <<"h", "e", "l", "p", " ">>,
     <<"e", "r", "r", "o", "r", " ">>,
     <<"e", "r", "r", "o", "r", "?", " ">>}

SentimentTexts == TextsOf(SentimentPieces, MaxPieces)

\* a question that asks for help, with no bare lexicon word in it
HelpQuestion ==
    <<"I", " ", "a", "m", " ", "n", "o", "t", " ", "s", "u", "r", "e", " ",
      "w", "h", "y", " ", "t", "h", "i", "s", " ", "k", "e", "e", "p", "s",
      " ", "f", "a", "i", "l", "i", "n", "g", ",", " ", "c", "a", "n", " ",
      "s", "o", "m", "e", "o", "n", "e", " ", "h", "e", "l", "p", " ", "m",
      "e", " ", "u", "n", "d", "e", "r", "s", "t", "a", "n", "d", " ", "t",
      "h", "e", " ", "e", "r", "r", "o", "r", "?">>

\* contents scored as they are: the question, and lexicon words in capitals
SampleContents ==
    {HelpQuestion, <<"G", "O", "O", "D", " ", "d", "a", "y">>,
     <<"h", "e", "l", "p", " ", "e", "r", "r", "o", "r">>,
     <<"B", "a", "d">>}

\* n times the character c
Run(c, n) == [i \in 1 .. n |-> c]

\* contents that differ in length only, up to and beyond the 500 characters
\* at which the length factor stops growing
LengthTexts ==
    {Run(c, n) : c \in {" ", "a"}, n \in {1, 2, 10, 11, 12, 499, 500, 501, 502}}
    \cup {<<"a", " ", "b">>, <<"a", " ", "b", " ">>, <<"g", "o", "o", "d">>,
          <<"g", "o", "o", "d", " ", " ">>, HelpQuestion}

\* n times the piece
Repeat(piece, n) == Flatten([i \in 1 .. n |-> piece])

\* texts of more than 20 words to a sentence, and of words of more than 10
\* characters
ComplexityTexts ==
    {Repeat(<<"a", " ">>, 20), Repeat(<<"a", " ">>, 21),
     Repeat(<<"a", "b", " ">>, 40) \o <<".">>,
     Repeat(<<"a", " ", "B", ".", " ">>, 12), Run("a", 11), HelpQuestion}

(***************************************************************************)
(* A call run from its first line to its return, with no step of another   *)
(* caller in between                                                       *)
(***************************************************************************)
Eval(scorer, c) ==
    CASE c.op = "extract_keywords" ->
            Ret(extract_keywords(scorer.nlp, c.text, c.n))
      [] c.op = "calculate_keyword_density" ->
            calculate_keyword_density(scorer.nlp, c.text)
      [] c.op = "calculate_repetition_score" -> calculate_repetition_score(c.text)
      [] c.op = "calculate_entropy" -> calculate_entropy(c.text)
      [] c.op = "extract_ngrams" -> Ret(extract_ngrams(c.text, c.n))
      [] c.op = "calculate_novelty_score" ->
            calculate_novelty_score(c.text, c.refs.list, c.n)
      [] c.op = "analyze_sentiment_basic" -> analyze_sentiment_basic(c.text)
      [] c.op = "calculate_complexity_score" -> calculate_complexity_score(c.text)
      [] c.op = "calculate_enhanced_importance" ->
            calculate_enhanced_importance(scorer, c.text, c.weights, c.refs)

Call(t, c) ==
    /\ LET r == Eval([nlp |-> nlp], c) IN
       /\ ret' = [ret EXCEPT ![t] = r]
       /\ pc' = [pc EXCEPT ![t] = IF Raised(r) THEN "raised" ELSE "returned"]
    /\ call' = [call EXCEPT ![t] = c]
    /\ UNCHANGED <<appvars, nlp, loc>>

ExtractKeywords(t) ==
    /\ pc[t] = "idle"
    /\ \E text \in ExtractorTexts :
           Call(t, [NoCall EXCEPT !.op = "extract_keywords", !.text = text, !.n = 3])

KeywordDensity(t) ==
    /\ pc[t] = "idle"
    /\ \E text \in ExtractorTexts :
           Call(t, [NoCall EXCEPT !.op = "calculate_keyword_density", !.text = text])

RepetitionScore(t) ==
    /\ pc[t] = "idle"
    /\ \E text \in ExtractorTexts \cup CaseTexts :
           Call(t, [NoCall EXCEPT !.op = "calculate_repetition_score", !.text = text])

Entropy(t) ==
    /\ pc[t] = "idle"
    /\ \E text \in ExtractorTexts :
           Call(t, [NoCall EXCEPT !.op = "calculate_entropy", !.text = text])

ExtractNgrams(t) ==
    /\ pc[t] = "idle"
    /\ \E text \in ExtractorTexts \cup CaseTexts, n \in 1 .. MaxNgram :
           Call(t, [NoCall EXCEPT !.op = "extract_ngrams", !.text = text, !.n = n])

NoveltyScore(t) ==
    /\ pc[t] = "idle"
    /\ \E text \in NoveltyTexts :
       \E refs \in ListsOf(NoveltyRefs \cup {text}, MaxRefs) :
           Call(t, [NoCall EXCEPT !.op = "calculate_novelty_score", !.text = text,
                               !.refs = Some(refs), !.n = 3])

SentimentBasic(t) ==
    /\ pc[t] = "idle"
    /\ \E text \in ExtractorTexts \cup SentimentTexts \cup SampleContents :
           Call(t, [NoCall EXCEPT !.op = "analyze_sentiment_basic", !.text = text])

ComplexityScore(t) ==
    /\ pc[t] = "idle"
    /\ \E text \in ExtractorTexts \cup ComplexityTexts :
           Call(t, [NoCall EXCEPT !.op = "calculate_complexity_score", !.text = text])

EnhancedImportance(t) ==
    /\ pc[t] = "idle"
    /\ \E text \in ScorerTexts \cup SampleContents, w \in WeightSamples,
          refs \in ScorerWindows :
           Call(t, [NoCall EXCEPT !.op = "calculate_enhanced_importance",
                               !.text = text, !.weights = w, !.refs = refs])

\* the caller takes the result and is free to call again
Return(t) ==
    /\ Finished(t)
    /\ pc' = [pc EXCEPT ![t] = "idle"]
    /\ call' = [call EXCEPT ![t] = NoCall]
    /\ loc' = [loc EXCEPT ![t] = NoLoc]
    /\ ret' = [ret EXCEPT ![t] = NoRet]
    /\ UNCHANGED <<appvars, nlp>>

\* the Extractor, one caller
Next ==
    \/ ExtractKeywords(Main)
    \/ KeywordDensity(Main)
    \/ RepetitionScore(Main)
    \/ Entropy(Main)
    \/ ExtractNgrams(Main)
    \/ NoveltyScore(Main)
    \/ SentimentBasic(Main)
    \/ ComplexityScore(Main)
    \/ Return(Main)

Spec == Init /\ [][Next]_vars

\* the Scorer, one caller
NextScorer ==
    \/ EnhancedImportance(Main)
    \/ Return(Main)

SpecScorer == Init /\ [][NextScorer]_vars

\* the sentiment classifier and the Scorer, one caller
NextAnalysis ==
    \/ SentimentBasic(Main)
    \/ EnhancedImportance(Main)
    \/ Return(Main)

SpecAnalysis == Init /\ [][NextAnalysis]_vars

\* calculate_enhanced_importance(content) or (content, existing_content=[])
ImportanceByLength(t) ==
    /\ pc[t] = "idle"
    /\ \E text \in LengthTexts, refs \in {None, Some(<<>>)} :
           Call(t, [NoCall EXCEPT !.op = "calculate_enhanced_importance",
                               !.text = text, !.refs = refs])

\* two callers that each score a content with the default weights
NextPair ==
    \E t \in Threads :
        \/ ImportanceByLength(t)
        \/ Return(t)

SpecPair == Init /\ [][NextPair]_vars

(***************************************************************************)
(* A call run one statement at a time, so that the statements of two       *)
(* callers interleave.  A statement that reads the shared analyzer reads   *)
(* nlp as it is when the statement runs.                                   *)
(***************************************************************************)
ThreadTexts ==
    {<<>>, <<"c", "a", "t", "BS", " ", "T", "h", "e", "BS", " ", "c", "a", "t", "BS">>,
     <<"b", "a", "d", " ", "b", "a", "d", " ", "g", "o", "o", "d">>}

ThreadWeights ==
    {DefaultWeights,
     [length |-> 100, complexity |-> 0, novelty |-> 100, sentiment |-> -15,
      entropy |-> 0]}

ThreadWindows == {None, Some(<<RefBadBadGood>>), Some(<<RefGoodBadCat, <<>>>>)}

\* the statement's value goes to a local variable, or its exception to the caller
Assign(t, r, next, newloc) ==
    IF Raised(r)
    THEN /\ pc' = [pc EXCEPT ![t] = "raised"]
         /\ ret' = [ret EXCEPT ![t] = r]
         /\ UNCHANGED loc
    ELSE /\ pc' = [pc EXCEPT ![t] = next]
         /\ loc' = [loc EXCEPT ![t] = newloc]
         /\ UNCHANGED ret

\* return r (or let its exception through)
Finish(t, r) ==
    /\ pc' = [pc EXCEPT ![t] = IF Raised(r) THEN "raised" ELSE "returned"]
    /\ ret' = [ret EXCEPT ![t] = r]
    /\ UNCHANGED loc

StartImportance(t, texts, weights, windows) ==
    /\ pc[t] = "idle"
    /\ \E text \in texts, w \in weights, refs \in windows :
           call' = [call EXCEPT ![t] =
                       [NoCall EXCEPT !.op = "calculate_enhanced_importance",
                                      !.text = text, !.weights = w, !.refs = refs]]
    /\ pc' = [pc EXCEPT ![t] = "length"]
    /\ UNCHANGED <<appvars, nlp, loc, ret>>


\* the first statement without the empty-content return
ScoreLengthNoGuard(t) ==
    /\ pc[t] = "length"
    /\ LET r == LengthFactor(call[t].text) IN
       Assign(t, r, "complexity", [loc[t] EXCEPT !.length_factor = r.v])
    /\ UNCHANGED <<appvars, nlp, call>>

\* if not content: return 0.0, {} ; length_factor = ...
ScoreLength(t) ==
    /\ pc[t] = "length"
    /\ IF call[t].text = <<>>
       THEN Finish(t, Ret(<<0, <<>>>>))
       ELSE LET r == LengthFactor(call[t].text) IN
            Assign(t, r, "complexity", [loc[t] EXCEPT !.length_factor = r.v])
    /\ UNCHANGED <<appvars, nlp, call>>

ScoreComplexity(t) ==
    /\ pc[t] = "complexity"
    /\ LET r == ComplexityFactor(call[t].text) IN
       Assign(t, r, "novelty", [loc[t] EXCEPT !.complexity_factor = r.v])
    /\ UNCHANGED <<appvars, nlp, call>>

\* the reference window read from an attribute that every caller overwrites
ScoreNoveltyShared(t) ==
    /\ pc[t] = "novelty"
    /\ LET others == {u \in Threads \ {t} : call[u].op = call[t].op}
           existing == IF others = {} THEN call[t].refs
                       ELSE call[CHOOSE u \in others : TRUE].refs
           r == NoveltyFactor(call[t].text, existing)
       IN  Assign(t, r, "sentiment", [loc[t] EXCEPT !.novelty_factor = r.v])
    /\ UNCHANGED <<appvars, nlp, call>>

ScoreNovelty(t) ==
    /\ pc[t] = "novelty"
    /\ LET r == NoveltyFactor(call[t].text, call[t].refs) IN
       Assign(t, r, "sentiment", [loc[t] EXCEPT !.novelty_factor = r.v])
    /\ UNCHANGED <<appvars, nlp, call>>

ScoreSentiment(t) ==
    /\ pc[t] = "sentiment"
    /\ LET r == SentimentFactor(call[t].text) IN
       Assign(t, r, "entropy", [loc[t] EXCEPT !.sentiment_factor = r.v])
    /\ UNCHANGED <<appvars, nlp, call>>

ScoreEntropy(t) ==
    /\ pc[t] = "entropy"
    /\ LET r == EntropyFactor(call[t].text) IN
       Assign(t, r, "combine", [loc[t] EXCEPT !.entropy_factor = r.v])
    /\ UNCHANGED <<appvars, nlp, call>>

\* importance = ...; metrics = {...}; return importance, metrics
ScoreCombine(t) ==
    /\ pc[t] = "combine"
    /\ Finish(t, Ret(Combine(loc[t], call[t].weights)))
    /\ UNCHANGED <<appvars, nlp, call>>

StartKeywords(t, texts) ==
    /\ pc[t] = "idle"
    /\ \E text \in texts, op \in {"extract_keywords", "calculate_keyword_density"} :
           call' = [call EXCEPT ![t] =
                       [NoCall EXCEPT !.op = op, !.text = text, !.n = 3]]
    /\ pc' = [pc EXCEPT ![t] = "findall"]
    /\ UNCHANGED <<appvars, nlp, loc, ret>>

\* words = re.findall(..., text.lower())
KwFindAll(t) ==
    /\ pc[t] = "findall"
    /\ pc' = [pc EXCEPT ![t] = "filter"]
    /\ loc' = [loc EXCEPT ![t].words = FindAll(Lower(call[t].text), call[t].n)]
    /\ UNCHANGED <<appvars, nlp, call, ret>>

\* the filter that also adds what it saw to self.stop_words
KwFilterLearns(t) ==
    /\ pc[t] = "filter"
    /\ pc' = [pc EXCEPT ![t] = "unique"]
    /\ loc' = [loc EXCEPT ![t].keywords = FilterStopWords(nlp, loc[t].words)]
    /\ nlp' = [nlp EXCEPT !.stop_words = @ \cup Range(loc[t].words)]
    /\ UNCHANGED <<appvars, call, ret>>

\* keywords = [word for word in words if word not in self.stop_words]
KwFilter(t) ==
    /\ pc[t] = "filter"
    /\ pc' = [pc EXCEPT ![t] = "unique"]
    /\ loc' = [loc EXCEPT ![t].keywords = FilterStopWords(nlp, loc[t].words)]
    /\ UNCHANGED <<appvars, nlp, call, ret>>

\* return list(set(keywords)), to the caller or to calculate_keyword_density
KwUnique(t) ==
    /\ pc[t] = "unique"
    /\ LET keywords == UniqueKeywords(loc[t].keywords) IN
       IF call[t].op = "extract_keywords"
       THEN Finish(t, Ret(keywords))
       ELSE /\ pc' = [pc EXCEPT ![t] = "density"]
            /\ loc' = [loc EXCEPT ![t].keywords = keywords]
            /\ UNCHANGED ret
    /\ UNCHANGED <<appvars, nlp, call>>

KwDensity(t) ==
    /\ pc[t] = "density"
    /\ Finish(t, DensityOf(loc[t].keywords, call[t].text))
    /\ UNCHANGED <<appvars, nlp, call>>

ScoreStep(t) ==
    \/ ScoreLength(t)
    \/ ScoreComplexity(t)
    \/ ScoreNovelty(t)
    \/ ScoreSentiment(t)
    \/ ScoreEntropy(t)
    \/ ScoreCombine(t)

KwStep(t) ==
    \/ KwFindAll(t)
    \/ KwFilter(t)
    \/ KwUnique(t)
    \/ KwDensity(t)

\* the Scorer statement by statement, one caller
NextSteps ==
    \/ StartImportance(Main, ScorerTexts, WeightSamples, ScorerWindows)
    \/ ScoreStep(Main)
    \/ Return(Main)

SpecSteps == Init /\ [][NextSteps]_vars

\* two callers on the shared scorer, their statements interleaved
NextThreads ==
    \E t \in Threads :
        \/ StartImportance(t, ThreadTexts, ThreadWeights, ThreadWindows)
        \/ StartKeywords(t, ThreadTexts)
        \/ ScoreStep(t)
        \/ KwStep(t)
        \/ Return(t)

SpecThreads == Init /\ [][NextThreads]_vars

(***************************************************************************)
(* The thought store: ThoughtLogger over the thoughts table.  A row is a   *)
(* ThoughtModel: id, timestamp, category, content, tags, emotion,          *)
(* importance.  Every insert commits, and the clock has moved on by the    *)
(* next one, so no two rows share a timestamp; uuid4 never hands out an id *)
(* twice, and the id of a row is written as the number of its insert.      *)
(***************************************************************************)
Greatest(S) == CHOOSE k \in S : \A m \in S : m <= k

\* str.strip(): the whitespace at both ends removed
Strip(text) ==
    LET inked == {i \in DOMAIN text : ~IsSpace(text[i])} IN
    IF inked = {} THEN <<>> ELSE SubSeq(text, Least(inked), Greatest(inked))

\* validate_tags: list(set(tag.strip().lower() for tag in v if tag.strip()))
validate_tags(v) ==
    {Lower(Strip(v[i])) : i \in {j \in DOMAIN v : Strip(v[j]) # <<>>}}

\* validate_emotion: None, or the stripped lower-cased label unless empty
validate_emotion(v) ==
    IF v.is_none THEN NoneStr
    ELSE LET emotion == Lower(Strip(v.v)) IN
         IF emotion = <<>> THEN NoneStr ELSE SomeStr(emotion)

\* Field(None, ge=0.0, le=1.0)
ImportanceField(x) == x.is_none \/ (0 <= x.v /\ x.v <= FSCALE)

\* Field(..., min_length=1, max_length=10000)
ContentField(content) == 1 <= Len(content) /\ Len(content) <= 10000

\* ThoughtCreate(category=, content=, tags=, emotion=, importance=)
ThoughtCreate(category, content, tags, emotion, importance) ==
    IF ~ContentField(content) \/ ~ImportanceField(importance)
    THEN Raise("ValidationError")
    ELSE Ret([category |-> category, content |-> content,
              tags |-> validate_tags(tags), emotion |-> validate_emotion(emotion),
              importance |-> importance])

\* Thought(**db_thought.to_dict()): the row read back through ThoughtBase
db_to_pydantic(db_thought) ==
    IF ~ContentField(db_thought.content) \/ ~ImportanceField(db_thought.importance)
    THEN Raise("ValidationError")
    ELSE Ret(db_thought)

RECURSIVE OrderByTimestampDesc(_)
\* .order_by(desc(ThoughtModel.timestamp))
OrderByTimestampDesc(rows) ==
    IF rows = <<>> THEN <<>>
    ELSE LET i == CHOOSE k \in DOMAIN rows :
                      \A j \in DOMAIN rows : rows[j].timestamp <= rows[k].timestamp
         IN  <<rows[i]>>
             \o OrderByTimestampDesc(SubSeq(rows, 1, i - 1)
                                     \o SubSeq(rows, i + 1, Len(rows)))

\* .limit(n)
Limit(rows, n) == SubSeq(rows, 1, Min(n, Len(rows)))

\* [t.content for t in rows]
Contents(rows) == [i \in DOMAIN rows |-> rows[i].content]

\* .filter(ThoughtModel.id == thought_id).first()
First(session, thought_id) ==
    SelectSeq(session, LAMBDA t : t.id = thought_id)

\* the reference window of create_thought with no limit on the query
create_window_unbounded(session) ==
    Contents(OrderByTimestampDesc(session))

\* the contents of the last 10 thoughts, the latest first
create_window(session) ==
    Contents(Limit(OrderByTimestampDesc(session), 10))

\* the importance of a thought given none, left missing when scoring is off
importance_left_missing(self, thought_data, existing_content) ==
    IF thought_data.importance.is_none /\ settings.enable_importance_scoring
    THEN Bind(calculate_enhanced_importance(
                  self, thought_data.content, DefaultWeights,
                  Some(existing_content)),
              LAMBDA r : Ret(SomeFloat(r[1])))
    ELSE Ret(thought_data.importance)

\* importance = thought_data.importance, or the scorer's when scoring is
\* enabled, or settings.default_importance
importance_of(self, thought_data, existing_content) ==
    IF thought_data.importance.is_none /\ settings.enable_importance_scoring
    THEN Bind(calculate_enhanced_importance(
                  self, thought_data.content, DefaultWeights,
                  Some(existing_content)),
              LAMBDA r : Ret(SomeFloat(r[1])))
    ELSE IF thought_data.importance.is_none
    THEN Ret(SomeFloat(settings.default_importance))
    ELSE Ret(thought_data.importance)

\* create_thought: what it passed to the scorer, what it returned or raised,
\* and the table it left; utcnow is the time of the insert
create_thought(self, session, thought_data, utcnow) ==
    LET existing_content == create_window(session)
        scores == thought_data.importance.is_none
                  /\ settings.enable_importance_scoring
        importance == importance_of(self, thought_data, existing_content)
        db_thought ==
            [id |-> utcnow, timestamp |-> utcnow,
             category |-> thought_data.category,
             content |-> thought_data.content,
             tags |-> thought_data.tags,
             emotion |-> IF settings.enable_emotions
                         THEN thought_data.emotion ELSE NoneStr,
             importance |-> importance.v]
    IN  [windows |-> IF scores THEN <<existing_content>> ELSE <<>>,
         r |-> IF Raised(importance) THEN importance
               ELSE db_to_pydantic(db_thought),
         session |-> IF Raised(importance) THEN session
                     ELSE Append(session, db_thought)]

\* Literal["perception", "reflection", "decision", "tick", "error"]
Categories == {"perception", "reflection", "decision", "tick", "error"}

\* the columns that are NOT NULL
NotNull == {"category", "content", "tags"}

\* ThoughtUpdate(**fields): the fields given, None included, and their values
ThoughtUpdate(given, values) ==
    IF \/ "category" \in given /\ ~values.category.is_none
                               /\ values.category.v \notin Categories
       \/ "content" \in given /\ ~values.content.is_none
                              /\ ~ContentField(values.content.v)
       \/ "importance" \in given /\ ~ImportanceField(values.importance)
    THEN Raise("ValidationError")
    ELSE Ret([given |-> given,
              values |-> [values EXCEPT
                             !.tags = IF @.is_none THEN @
                                      ELSE [@ EXCEPT !.v = validate_tags(@)],
                             !.emotion = validate_emotion(@)]])

\* update_thought on the row it found: setattr for each field that was set
SetFields(db_thought, update_data) ==
    LET set == {f \in update_data.given :
                   ~(f = "emotion" /\ ~settings.enable_emotions)}
        v == update_data.values
    IN  [db_thought EXCEPT
            !.category = IF "category" \in set THEN v.category.v ELSE @,
            !.content = IF "content" \in set THEN v.content.v ELSE @,
            !.tags = IF "tags" \in set THEN v.tags.v ELSE @,
            !.emotion = IF "emotion" \in set THEN v.emotion ELSE @,
            !.importance = IF "importance" \in set THEN v.importance ELSE @]

\* update_thought: None when no row has the id; a NULL in a NOT NULL column
\* fails the commit
update_thought(session, thought_id, update_data) ==
    IF First(session, thought_id) = <<>>
    THEN [r |-> Ret(NoneStr), session |-> session]
    ELSE IF \E f \in update_data.given \cap NotNull : update_data.values[f].is_none
    THEN [r |-> Raise("IntegrityError"), session |-> session]
    ELSE LET after == [i \in DOMAIN session |->
                          IF session[i].id = thought_id
                          THEN SetFields(session[i], update_data)
                          ELSE session[i]]
         IN  [r |-> db_to_pydantic(Head(First(after, thought_id))),
              session |-> after]

\* delete_thought
delete_thought(session, thought_id) ==
    IF First(session, thought_id) # <<>>
    THEN [r |-> Ret(TRUE),
          session |-> SelectSeq(session, LAMBDA t : t.id # thought_id)]
    ELSE [r |-> Ret(FALSE), session |-> session]

\* get_enhanced_analysis: every extractor on the content, then the importance
get_enhanced_analysis(self, content, existing_content) ==
    LET keywords == extract_keywords(self.nlp, content, 3) IN
    Bind(calculate_keyword_density(self.nlp, content), LAMBDA keyword_density :
    Bind(calculate_repetition_score(content), LAMBDA repetition_score :
    Bind(calculate_entropy(content), LAMBDA entropy :
    Bind(analyze_sentiment_basic(content), LAMBDA sentiment :
    Bind(calculate_complexity_score(content), LAMBDA complexity :
    Bind(calculate_novelty_score(content, existing_content.list, 3),
         LAMBDA novelty :
    Bind(calculate_enhanced_importance(self, content, DefaultWeights,
                                       existing_content), LAMBDA scored :
         Ret([keywords |-> Limit(keywords, 10),
              keyword_density |->
                  LET top == Range(Limit(SetToList(DOMAIN keyword_density), 5))
                  IN  [k \in top |-> keyword_density[k]],
              repetition_score |-> repetition_score,
              entropy |-> entropy,
              sentiment |-> sentiment[1],
              sentiment_score |-> sentiment[2],
              complexity_score |-> complexity,
              novelty_score |-> novelty,
              importance_score |-> scored[1],
              importance_metrics |-> scored[2],
              word_count |-> Len(Split(content)),
              char_count |-> Len(content)]))))))))

\* the contents of the last 20 thoughts other than the analysed one
analysis_window(session, thought_id) ==
    Contents(Limit(OrderByTimestampDesc(
                       SelectSeq(session, LAMBDA t : t.id # thought_id)), 20))

\* get_nlp_analysis: None when no row has the id
get_nlp_analysis(self, session, thought_id) ==
    IF First(session, thought_id) = <<>>
    THEN [windows |-> <<>>, found |-> FALSE, r |-> Ret(<<>>)]
    ELSE LET db_thought == Head(First(session, thought_id))
             existing_content == analysis_window(session, thought_id)
         IN  [windows |-> <<existing_content>>, found |-> TRUE,
              r |-> get_enhanced_analysis(self, db_thought.content,
                                          Some(existing_content))]

\* the contents of the last 10 thoughts older than the one being rescored
context_window(session, thought) ==
    Contents(Limit(OrderByTimestampDesc(
                       SelectSeq(session, LAMBDA t :
                                     t.id # thought.id
                                     /\ t.timestamp < thought.timestamp)), 10))

\* the rewrite whatever the difference
differs_always(new_importance, current_importance) ==
    TRUE

\* abs(new_importance - current_importance) > 0.1, None read as 0.0
differs(new_importance, current_importance) ==
    LET current == IF current_importance.is_none THEN 0
                   ELSE current_importance.v
        d == new_importance - current
    IN  (IF d < 0 THEN 0 - d ELSE d) > FSCALE \div 10

\* .update({'importance': new_importance}) on the row with the id
UpdateImportance(session, thought_id, new_importance) ==
    [i \in DOMAIN session |->
        IF session[i].id = thought_id
        THEN [session[i] EXCEPT !.importance = SomeFloat(new_importance)]
        ELSE session[i]]

RECURSIVE RecalculateLoop(_, _, _, _, _)
\* for thought in thoughts: rescore it against its context, update the row
\* when the score moved
RecalculateLoop(self, session, thoughts, updated_count, windows) ==
    IF thoughts = <<>>
    THEN [r |-> Ret(updated_count), session |-> session, windows |-> windows]
    ELSE CHOOSE done \in
             {LET scored == step.scored
                  thought == step.thought
              IN  IF Raised(scored)
                  THEN [r |-> scored, session |-> session,
                        windows |-> step.seen]
                  ELSE IF differs(scored.v[1], thought.importance)
                  THEN CHOOSE rest \in
                           {RecalculateLoop(self, updated, step.rest,
                                            updated_count + 1, step.seen) :
                                updated \in {UpdateImportance(
                                                 session, thought.id,
                                                 scored.v[1])}} : TRUE
                  ELSE RecalculateLoop(self, session, step.rest,
                                       updated_count, step.seen) :
                  step \in
                      {[thought |-> thought,
                        rest |-> Tail(thoughts),
                        seen |-> Append(windows,
                                        context_window(session, thought)),
                        scored |-> calculate_enhanced_importance(
                                       self, thought.content, DefaultWeights,
                                       Some(context_window(session, thought)))] :
                           thought \in {Head(thoughts)}}} : TRUE

\* recalculate_importance_bulk: the number of rows it rewrote; an exception
\* leaves the session uncommitted
recalculate_importance_bulk(self, session, limit) ==
    LET query == OrderByTimestampDesc(session)
        thoughts == IF ~limit.is_none /\ limit.v # 0
                    THEN Limit(query, limit.v) ELSE query
        done == RecalculateLoop(self, session, thoughts, 0, <<>>)
    IN  [done EXCEPT !.session = IF Raised(done.r) THEN session ELSE @]

(***************************************************************************)
(* The store's callers: the API routes and the CLI commands, one request   *)
(* at a time                                                               *)
(***************************************************************************)
GoodCat == <<"g", "o", "o", "d", " ", "c", "a", "t">>
Bad == <<"b", "a", "d">>
Blank == <<" ">>

\* the contents the thoughts of the runs have
StoreContents == {GoodCat, Bad, Blank}

\* 0.5, 0.9 and 1.5 as floats
Half == FSCALE \div 2
NineTenths == (9 * FSCALE) \div 10
OneAndHalf == (3 * FSCALE) \div 2

\* the arguments of the requests that create a thought
CreateSamples ==
    {[category |-> "reflection", content |-> c, tags |-> <<>>,
      emotion |-> NoneStr, importance |-> NoneFloat] : c \in StoreContents}
    \cup {[category |-> "decision", content |-> Bad,
           tags |-> <<<<" ", "A", " ">>, <<"a">>, <<" ">>>>,
           emotion |-> SomeStr(<<" ", "J", "o", "y">>),
           importance |-> SomeFloat(x)] : x \in {0, Half, OneAndHalf}}
    \cup {[category |-> "tick", content |-> <<>>, tags |-> <<>>,
           emotion |-> SomeStr(<<" ">>), importance |-> NoneFloat]}

\* a ThoughtUpdate with nothing set
Unset ==
    [category |-> [is_none |-> TRUE, v |-> ""], content |-> NoneStr,
     tags |-> [is_none |-> TRUE, v |-> <<>>], emotion |-> NoneStr,
     importance |-> NoneFloat]

\* the arguments of the requests that update a thought
UpdateSamples ==
    {[given |-> {}, values |-> Unset],
     [given |-> {"importance"},
      values |-> [Unset EXCEPT !.importance = SomeFloat(NineTenths)]],
     [given |-> {"importance"},
      values |-> [Unset EXCEPT !.importance = SomeFloat(OneAndHalf)]],
     [given |-> {"importance"}, values |-> Unset],
     [given |-> {"category"}, values |-> Unset],
     [given |-> {"content", "emotion", "tags"},
      values |-> [Unset EXCEPT !.content = SomeStr(GoodCat),
                               !.emotion = SomeStr(<<"C", "a", "l", "m", " ">>),
                               !.tags = [is_none |-> FALSE,
                                         v |-> <<<<"B">>, <<"b", " ">>>>]]]}

\* the ids a request names: no row's, the oldest row's, the latest row's
RequestIds(session) ==
    {0} \cup (IF session = <<>> THEN {}
              ELSE {session[1].id, session[Len(session)].id})

\* the limits of the recalculate command
RecalculateLimits == {NoneInt, SomeInt(0), SomeInt(1), SomeInt(11)}

\* a table of n thoughts, each created with the importance 0.5 given
Seed(n) ==
    [i \in 1 .. n |->
        [id |-> i, timestamp |-> i, category |-> "reflection",
         content |-> IF i % 3 = 0 THEN GoodCat ELSE Bad,
         tags |-> {}, emotion |-> NoneStr, importance |-> SomeFloat(Half)]]

\* the sizes of the tables the runs start from, and the inserts a run stops at
SeedSizes == {0, 11, 22}
ClockStops == {2, 13, 24}

\* the requests a run serves
MaxRequests == 2

\* the record of one more request served
Served(op) == [NoOp EXCEPT !.served = last.served + 1, !.op = op]

\* the feature switches the application may be started with
SettingsSamples ==
    {[Settings_init EXCEPT !.enable_importance_scoring = s,
                           !.enable_emotions = s] : s \in BOOLEAN}

InitStore ==
    /\ ScorerIdle
    /\ settings \in SettingsSamples
    /\ \E n \in SeedSizes : db = Seed(n) /\ now = n
    /\ last = NoOp
    /\ chat = ChatInterface_init(TRUE, FALSE, FALSE)
    /\ env = NoEnv

CreateThought ==
    /\ last.served < MaxRequests
    /\ now \notin ClockStops
    /\ \E a \in CreateSamples :
           LET thought_data == ThoughtCreate(a.category, a.content, a.tags,
                                             a.emotion, a.importance)
               out == create_thought([nlp |-> nlp], db, thought_data.v, now + 1)
           IN  IF Raised(thought_data)
               THEN /\ last' = [Served("create_thought") EXCEPT
                                            !.exc = thought_data.exc,
                                            !.given = a.importance]
                    /\ UNCHANGED <<db, now>>
               ELSE /\ db' = out.session
                    /\ now' = now + 1
                    /\ last' = [Served("create_thought") EXCEPT
                                            !.exc = out.r.exc,
                                            !.id = now + 1,
                                            !.given = a.importance,
                                            !.windows = out.windows]
    /\ UNCHANGED <<scorervars, settings, chat, env>>

UpdateThought ==
    /\ last.served < MaxRequests
    /\ \E thought_id \in RequestIds(db), a \in UpdateSamples :
           LET update_data == ThoughtUpdate(a.given, a.values)
               out == update_thought(db, thought_id, update_data.v)
           IN  IF Raised(update_data)
               THEN /\ last' = [Served("update_thought") EXCEPT
                                            !.exc = update_data.exc,
                                            !.id = thought_id]
                    /\ UNCHANGED db
               ELSE /\ db' = out.session
                    /\ last' = [Served("update_thought") EXCEPT
                                            !.exc = out.r.exc,
                                            !.id = thought_id,
                                            !.found = First(db, thought_id) # <<>>]
    /\ UNCHANGED <<scorervars, settings, now, chat, env>>

DeleteThought ==
    /\ last.served < MaxRequests
    /\ \E thought_id \in RequestIds(db) :
           LET out == delete_thought(db, thought_id) IN
           /\ db' = out.session
           /\ last' = [Served("delete_thought") EXCEPT !.id = thought_id,
                                   !.found = out.r.v]
    /\ UNCHANGED <<scorervars, settings, now, chat, env>>

NlpAnalysis ==
    /\ last.served < MaxRequests
    /\ \E thought_id \in RequestIds(db) :
           LET out == get_nlp_analysis([nlp |-> nlp], db, thought_id) IN
           last' = [Served("get_nlp_analysis") EXCEPT !.id = thought_id,
                                !.exc = out.r.exc, !.found = out.found,
                                !.windows = out.windows]
    /\ UNCHANGED <<scorervars, settings, db, now, chat, env>>

RecalculateImportance ==
    /\ last.served < MaxRequests
    /\ \E limit \in RecalculateLimits :
           LET out == recalculate_importance_bulk([nlp |-> nlp], db, limit) IN
           /\ db' = out.session
           /\ last' = [Served("recalculate_importance_bulk") EXCEPT
                                   !.exc = out.r.exc, !.limit = limit,
                                   !.count = IF Raised(out.r) THEN 0 ELSE out.r.v,
                                   !.windows = out.windows,
                                   !.thoughts = db]
    /\ UNCHANGED <<scorervars, settings, now, chat, env>>

(***************************************************************************)
(* Listing and export                                                      *)
(***************************************************************************)
\* ThoughtQuery(**args): page >= 1, 1 <= size <= 100, the importances in
\* [0,1]; the tags cleaned
ThoughtQuery(args) ==
    IF \/ ~ImportanceField(args.min_importance)
       \/ ~ImportanceField(args.max_importance)
       \/ args.page < 1
       \/ args.size < 1
       \/ args.size > 100
    THEN Raise("ValidationError")
    ELSE Ret([args EXCEPT
                 !.tags = IF @.is_none THEN @
                          ELSE [@ EXCEPT !.v = SetToList(validate_tags(@))]])

\* the truth value of an Optional[str] or Optional[List]: None, "" and []
\* are false
Given(x) == ~x.is_none /\ x.v # <<>>
GivenName(x) == ~x.is_none /\ x.v # ""

\* content.ilike("%text%") for a text with no wildcard in it
ILike(content, text) ==
    \E i \in 0 .. Len(content) - Len(text) :
        SubSeq(Lower(content), i + 1, i + Len(text)) = Lower(text)

\* _apply_filters: the rows every filter that is set lets through; a row
\* with no importance passes no importance filter, tags.contains([tag]) is
\* read as the row having the tag
apply_filters(rows, filters) ==
    LET search_text == IF Given(filters.search_term) THEN filters.search_term
                       ELSE filters.search
    IN  SelectSeq(rows, LAMBDA t :
            /\ GivenName(filters.category) => t.category = filters.category.v
            /\ Given(filters.tags) =>
                   \E i \in DOMAIN filters.tags.v : filters.tags.v[i] \in t.tags
            /\ ~Given(filters.tags) /\ Given(filters.tag) =>
                   filters.tag.v \in t.tags
            /\ Given(filters.emotion) => t.emotion = filters.emotion
            /\ ~filters.min_importance.is_none =>
                   /\ ~t.importance.is_none
                   /\ t.importance.v >= filters.min_importance.v
            /\ ~filters.max_importance.is_none =>
                   /\ ~t.importance.is_none
                   /\ t.importance.v <= filters.max_importance.v
            /\ ~filters.start_date.is_none => t.timestamp >= filters.start_date.v
            /\ ~filters.end_date.is_none => t.timestamp <= filters.end_date.v
            /\ ~filters.created_after.is_none =>
                   t.timestamp >= filters.created_after.v
            /\ ~filters.created_before.is_none =>
                   t.timestamp <= filters.created_before.v
            /\ Given(search_text) => ILike(t.content, search_text.v))

\* s[::-1]
Reverse(s) == [i \in DOMAIN s |-> s[Len(s) + 1 - i]]

RECURSIVE ToPydantic(_)
\* [self._db_to_pydantic(db_thought) for db_thought in db_thoughts]
ToPydantic(db_thoughts) ==
    IF db_thoughts = <<>> THEN Ret(<<>>)
    ELSE Bind(db_to_pydantic(Head(db_thoughts)), LAMBDA thought :
         Bind(ToPydantic(Tail(db_thoughts)), LAMBDA rest :
              Ret(<<thought>> \o rest)))

\* list_thoughts for a query ordered by timestamp: one page of the rows the
\* filters let through
list_thoughts(session, query) ==
    LET page_size == query.size
        filtered == apply_filters(session, query)
        total == Len(filtered)
        ordered == IF query.order_desc THEN OrderByTimestampDesc(filtered)
                   ELSE Reverse(OrderByTimestampDesc(filtered))
        offset == (query.page - 1) * page_size
        db_thoughts == SubSeq(ordered, offset + 1,
                              Min(offset + page_size, Len(ordered)))
    IN  Bind(ToPydantic(db_thoughts), LAMBDA thoughts :
             Ret([thoughts |-> thoughts, total |-> total, page |-> query.page,
                  page_size |-> page_size,
                  total_pages |-> (total + page_size - 1) \div page_size]))

\* get_thoughts: an alias of list_thoughts
get_thoughts(session, query) == list_thoughts(session, query)

\* the outcome of an export: its exit code or exception, whether it reported
\* success, and the thoughts it wrote
Exported(exit, exc, success, thoughts) ==
    [exit |-> exit, exc |-> exc, success |-> success, thoughts |-> thoughts]

\* the page size export builds its query with
ExportSize == 10000

\* the CLI export command; an exception anywhere ends it with exit code 1
export(session, format_type, category, tag, emotion, days, today) ==
    LET built == ThoughtQuery(
                     [QueryDefaults EXCEPT
                         !.page = 1, !.size = ExportSize,
                         !.min_importance = SomeFloat(0),
                         !.max_importance = SomeFloat(FSCALE),
                         !.order_by = "timestamp", !.order_desc = TRUE])
        query_filters ==
            [built.v EXCEPT
                !.category = IF GivenName(category) THEN category ELSE @,
                !.tag = IF Given(tag) THEN tag ELSE @,
                !.emotion = IF Given(emotion) THEN emotion ELSE @,
                !.created_after = IF ~days.is_none /\ days.v # 0
                                  THEN SomeInt(today - days.v) ELSE @]
        thoughts_response == get_thoughts(session, query_filters)
    IN  IF Raised(built) THEN Exported(1, built.exc, FALSE, <<>>)
        ELSE IF Raised(thoughts_response)
        THEN Exported(1, thoughts_response.exc, FALSE, <<>>)
        ELSE IF thoughts_response.v.thoughts = <<>>
        THEN Exported(0, "", FALSE, <<>>)
        ELSE IF Lower(format_type) \in {<<"j", "s", "o", "n">>, <<"c", "s", "v">>}
        THEN Exported(0, "", TRUE, thoughts_response.v.thoughts)
        ELSE Exported(0, "", TRUE, <<>>)

\* _export_to_json and _export_to_csv: a Thought has no created_at, so the
\* first thought raises AttributeError, which both catch and report
export_to_file(thoughts) ==
    IF thoughts = <<>> THEN Exported(0, "", TRUE, <<>>)
    ELSE Exported(0, "", FALSE, <<>>)

\* ThoughtExporter.export_thoughts; query_filters is None or a ThoughtQuery
export_thoughts(session, format_type, query_filters) ==
    LET built == IF query_filters.is_none
                 THEN ThoughtQuery(
                          [QueryDefaults EXCEPT
                              !.page = 1, !.size = ExportSize,
                              !.order_by = "timestamp", !.order_desc = TRUE])
                 ELSE ThoughtQuery([query_filters.v EXCEPT !.size = ExportSize])
        thoughts_response == get_thoughts(session, built.v)
    IN  IF Raised(built) THEN Exported(0, built.exc, FALSE, <<>>)
        ELSE IF Raised(thoughts_response)
        THEN Exported(0, thoughts_response.exc, FALSE, <<>>)
        ELSE IF thoughts_response.v.thoughts = <<>>
        THEN Exported(0, "", FALSE, <<>>)
        ELSE IF Lower(format_type) \in {<<"j", "s", "o", "n">>, <<"c", "s", "v">>}
        THEN export_to_file(thoughts_response.v.thoughts)
        ELSE Exported(0, "", FALSE, <<>>)

\* the formats asked for
ExportFormats == {<<"J", "S", "O", "N">>, <<"c", "s", "v">>, <<"x", "m", "l">>}

\* the filters of the export command: none, a category, a tag and an
\* emotion, the last day
ExportOptions ==
    {[category |-> NoneName, tag |-> NoneStr, emotion |-> NoneStr,
      days |-> NoneInt],
     [category |-> SomeName("reflection"), tag |-> NoneStr, emotion |-> NoneStr,
      days |-> NoneInt],
     [category |-> NoneName, tag |-> SomeStr(<<"a">>),
      emotion |-> SomeStr(<<"j", "o", "y">>), days |-> SomeInt(1)]}

\* the queries handed to export_thoughts: None, or a ThoughtQuery
ExportQueries ==
    {[is_none |-> TRUE, v |-> QueryDefaults],
     [is_none |-> FALSE, v |-> QueryDefaults],
     [is_none |-> FALSE,
      v |-> [QueryDefaults EXCEPT !.category = SomeName("decision"),
                                  !.size = 100]]}

Export ==
    /\ last.served < MaxRequests
    /\ \E format_type \in ExportFormats, o \in ExportOptions :
           LET out == export(db, format_type, o.category, o.tag, o.emotion,
                             o.days, now)
           IN  last' = [Served("export") EXCEPT
                           !.exc = out.exc, !.count = out.exit,
                           !.found = out.success, !.format = format_type,
                           !.filters = [QueryDefaults EXCEPT
                                           !.category = o.category,
                                           !.tag = o.tag,
                                           !.emotion = o.emotion,
                                           !.min_importance = SomeFloat(0),
                                           !.max_importance = SomeFloat(FSCALE),
                                           !.created_after =
                                               IF o.days.is_none THEN NoneInt
                                               ELSE SomeInt(now - o.days.v)],
                           !.thoughts = out.thoughts]
    /\ UNCHANGED <<scorervars, settings, db, now, chat, env>>

ExportThoughts ==
    /\ last.served < MaxRequests
    /\ \E format_type \in ExportFormats, query_filters \in ExportQueries :
           LET out == export_thoughts(db, format_type, query_filters) IN
           last' = [Served("export_thoughts") EXCEPT
                       !.exc = out.exc, !.count = out.exit,
                       !.found = out.success, !.format = format_type,
                       !.filters = query_filters.v,
                       !.thoughts = out.thoughts]
    /\ UNCHANGED <<scorervars, settings, db, now, chat, env>>

\* the requests on the store
NextStore ==
    \/ CreateThought
    \/ UpdateThought
    \/ DeleteThought
    \/ NlpAnalysis
    \/ RecalculateImportance
    \/ Export
    \/ ExportThoughts

SpecStore == InitStore /\ [][NextStore]_vars

(***************************************************************************)
(* chat.utils: what the chat interface derives from a message              *)
(***************************************************************************)
\* keyword in text
Contains(text, keyword) ==
    \E i \in 0 .. Len(text) - Len(keyword) :
        SubSeq(text, i + 1, i + Len(keyword)) = keyword

\* sum(1 for keyword in keywords if keyword in text)
CountIn(text, keywords) ==
    Cardinality({keyword \in keywords : Contains(text, keyword)})

\* analyze_emotion: positive_keywords
positive_keywords ==
    {<<"h", "a", "p", "p", "y">>, <<"j", "o", "y">>, <<"e", "x", "c", "i",
     "t", "e", "d">>, <<"g", "r", "e", "a", "t">>, <<"a", "w", "e", "s",
     "o", "m", "e">>, <<"a", "m", "a", "z", "i", "n", "g">>, <<"w", "o",
     "n", "d", "e", "r", "f", "u", "l">>, <<"f", "a", "n", "t", "a", "s",
     "t", "i", "c">>, <<"l", "o", "v", "e">>, <<"l", "i", "k", "e">>,
     <<"g", "o", "o", "d">>, <<"e", "x", "c", "e", "l", "l", "e", "n",
     "t">>}

\* analyze_emotion: negative_keywords
negative_keywords ==
    {<<"s", "a", "d">>, <<"a", "n", "g", "r", "y">>, <<"f", "r", "u", "s",
     "t", "r", "a", "t", "e", "d">>, <<"d", "i", "s", "a", "p", "p", "o",
     "i", "n", "t", "e", "d">>, <<"u", "p", "s", "e", "t">>, <<"a", "n",
     "n", "o", "y", "e", "d">>, <<"h", "a", "t", "e">>, <<"d", "i", "s",
     "l", "i", "k", "e">>, <<"b", "a", "d">>, <<"t", "e", "r", "r", "i",
     "b", "l", "e">>, <<"a", "w", "f", "u", "l">>}

\* analyze_emotion: analytical_keywords
analytical_keywords ==
    {<<"t", "h", "i", "n", "k">>, <<"a", "n", "a", "l", "y", "z", "e">>,
     <<"c", "o", "n", "s", "i", "d", "e", "r">>, <<"u", "n", "d", "e",
     "r", "s", "t", "a", "n", "d">>, <<"p", "r", "o", "c", "e", "s",
     "s">>, <<"e", "v", "a", "l", "u", "a", "t", "e">>, <<"a", "s", "s",
     "e", "s", "s">>, <<"e", "x", "a", "m", "i", "n", "e">>, <<"s", "t",
     "u", "d", "y">>}

\* analyze_emotion: question_keywords
curious_keywords ==
    {<<"w", "o", "n", "d", "e", "r">>, <<"c", "u", "r", "i", "o", "u",
     "s">>, <<"q", "u", "e", "s", "t", "i", "o", "n">>, <<"w", "h", "a",
     "t">>, <<"h", "o", "w">>, <<"w", "h", "y">>, <<"w", "h", "e", "n">>,
     <<"w", "h", "e", "r", "e">>, <<"c", "o", "n", "f", "u", "s", "e",
     "d">>, <<"u", "n", "c", "e", "r", "t", "a", "i", "n">>}

\* analyze_emotion: the label of the keyword group that appears most
analyze_emotion(text) ==
    CHOOSE label \in
        {IF c.positive > Max(c.negative, Max(c.analytical, c.curious))
         THEN <<"p", "o", "s", "i", "t", "i", "v", "e">>
         ELSE IF c.negative > Max(c.positive, Max(c.analytical, c.curious))
         THEN <<"n", "e", "g", "a", "t", "i", "v", "e">>
         ELSE IF c.curious > Max(c.positive, Max(c.negative, c.analytical))
         THEN <<"c", "u", "r", "i", "o", "u", "s">>
         ELSE IF c.analytical > 0
         THEN <<"a", "n", "a", "l", "y", "t", "i", "c", "a", "l">>
         ELSE IF Contains(text, <<"?">>)
         THEN <<"q", "u", "e", "s", "t", "i", "o", "n", "i", "n", "g">>
         ELSE <<"n", "e", "u", "t", "r", "a", "l">> :
             c \in {[positive |-> CountIn(text_lower, positive_keywords),
                     negative |-> CountIn(text_lower, negative_keywords),
                     analytical |-> CountIn(text_lower, analytical_keywords),
                     curious |-> CountIn(text_lower, curious_keywords)] :
                        text_lower \in {Lower(text)}}} : TRUE

\* calculate_importance: important_keywords
important_keywords ==
    {<<"i", "m", "p", "o", "r", "t", "a", "n", "t">>, <<"c", "r", "i",
     "t", "i", "c", "a", "l">>, <<"u", "r", "g", "e", "n", "t">>, <<"s",
     "i", "g", "n", "i", "f", "i", "c", "a", "n", "t">>, <<"k", "e",
     "y">>, <<"e", "s", "s", "e", "n", "t", "i", "a", "l">>, <<"c", "r",
     "u", "c", "i", "a", "l">>, <<"m", "a", "j", "o", "r">>, <<"p", "r",
     "i", "m", "a", "r", "y">>, <<"m", "a", "i", "n">>}

\* calculate_importance: question_keywords
question_keywords ==
    {<<"?">>, <<"w", "h", "a", "t">>, <<"h", "o", "w">>, <<"w", "h",
     "y">>, <<"w", "h", "e", "n">>, <<"w", "h", "e", "r", "e">>, <<"w",
     "h", "i", "c", "h">>}

\* calculate_importance: decision_keywords
decision_keywords ==
    {<<"d", "e", "c", "i", "d", "e">>, <<"c", "h", "o", "o", "s", "e">>,
     <<"s", "e", "l", "e", "c", "t">>, <<"d", "e", "t", "e", "r", "m",
     "i", "n", "e">>, <<"c", "o", "n", "c", "l", "u", "d", "e">>, <<"r",
     "e", "s", "o", "l", "u", "t", "i", "o", "n">>, <<"s", "o", "l", "u",
     "t", "i", "o", "n">>, <<"a", "n", "s", "w", "e", "r">>}

\* calculate_importance: 0.3, a boost for the length and for each keyword
\* found, kept within [0.1, 1.0]
calculate_importance(text, is_ai_response) ==
    LET base_score == (3 * FSCALE) \div 10
        length_factor == Min(TrueDiv(Len(text), 500).v, (3 * FSCALE) \div 10)
    IN  CHOOSE score \in
            {LET importance_boost ==
                     Min(CountIn(text_lower, important_keywords)
                             * (FSCALE \div 10),
                         (4 * FSCALE) \div 10)
                 question_boost ==
                     IF ~is_ai_response
                     THEN Min(CountIn(text_lower, question_keywords)
                                  * (FSCALE \div 20),
                              (2 * FSCALE) \div 10)
                     ELSE 0
                 decision_boost ==
                     IF is_ai_response
                     THEN Min(CountIn(text_lower, decision_keywords)
                                  * (FSCALE \div 20),
                              (2 * FSCALE) \div 10)
                     ELSE 0
             IN  Min(Max(base_score + length_factor + importance_boost
                             + question_boost + decision_boost,
                         FSCALE \div 10),
                     FSCALE) :
                 text_lower \in {Lower(text)}} : TRUE

\* extract_tags: topic_patterns
topic_patterns ==
    {
     [tag |-> <<"p", "r", "o", "g", "r", "a", "m", "m", "i", "n", "g">>,
      keywords |-> {<<"c", "o", "d", "e">>, <<"p", "r", "o", "g", "r",
      "a", "m", "m", "i", "n", "g">>, <<"p", "y", "t", "h", "o", "n">>,
      <<"s", "o", "f", "t", "w", "a", "r", "e">>, <<"d", "e", "v", "e",
      "l", "o", "p", "m", "e", "n", "t">>, <<"b", "u", "g">>, <<"f",
      "u", "n", "c", "t", "i", "o", "n">>}],
     [tag |-> <<"s", "c", "i", "e", "n", "c", "e">>, keywords |->
      {<<"s", "c", "i", "e", "n", "c", "e">>, <<"r", "e", "s", "e", "a",
      "r", "c", "h">>, <<"s", "t", "u", "d", "y">>, <<"e", "x", "p",
      "e", "r", "i", "m", "e", "n", "t">>, <<"d", "a", "t", "a">>,
      <<"a", "n", "a", "l", "y", "s", "i", "s">>}],
     [tag |-> <<"t", "e", "c", "h", "n", "o", "l", "o", "g", "y">>,
      keywords |-> {<<"t", "e", "c", "h", "n", "o", "l", "o", "g",
      "y">>, <<"t", "e", "c", "h">>, <<"c", "o", "m", "p", "u", "t",
      "e", "r">>, <<"A", "I">>, <<"a", "r", "t", "i", "f", "i", "c",
      "i", "a", "l", " ", "i", "n", "t", "e", "l", "l", "i", "g", "e",
      "n", "c", "e">>, <<"m", "a", "c", "h", "i", "n", "e", " ", "l",
      "e", "a", "r", "n", "i", "n", "g">>}],
     [tag |-> <<"e", "d", "u", "c", "a", "t", "i", "o", "n">>, keywords
      |-> {<<"l", "e", "a", "r", "n">>, <<"t", "e", "a", "c", "h", "i",
      "n", "g">>, <<"e", "d", "u", "c", "a", "t", "i", "o", "n">>,
      <<"k", "n", "o", "w", "l", "e", "d", "g", "e">>, <<"u", "n", "d",
      "e", "r", "s", "t", "a", "n", "d">>, <<"e", "x", "p", "l", "a",
      "i", "n">>}],
     [tag |-> <<"q", "u", "e", "s", "t", "i", "o", "n">>, keywords |->
      {<<"?">>, <<"w", "h", "a", "t">>, <<"h", "o", "w">>, <<"w", "h",
      "y">>, <<"w", "h", "e", "n">>, <<"w", "h", "e", "r", "e">>, <<"w",
      "h", "i", "c", "h">>}],
     [tag |-> <<"g", "r", "e", "e", "t", "i", "n", "g">>, keywords |->
      {<<"h", "e", "l", "l", "o">>, <<"h", "i">>, <<"g", "o", "o", "d",
      " ", "m", "o", "r", "n", "i", "n", "g">>, <<"g", "o", "o", "d",
      " ", "a", "f", "t", "e", "r", "n", "o", "o", "n">>, <<"g", "o",
      "o", "d", " ", "e", "v", "e", "n", "i", "n", "g">>}],
     [tag |-> <<"c", "o", "n", "v", "e", "r", "s", "a", "t", "i", "o",
      "n">>, keywords |-> {<<"c", "h", "a", "t">>, <<"t", "a", "l",
      "k">>, <<"d", "i", "s", "c", "u", "s", "s">>, <<"c", "o", "n",
      "v", "e", "r", "s", "a", "t", "i", "o", "n">>, <<"s", "p", "e",
      "a", "k", "i", "n", "g">>}]
    }

\* extract_tags: the topics a keyword of which appears, the role, the length
extract_tags(text, is_ai_response) ==
    CHOOSE tags \in
        {SetToList(
             {p.tag : p \in {q \in topic_patterns :
                                 \E keyword \in q.keywords :
                                     Contains(text_lower, keyword)}}
             \cup {IF is_ai_response
                   THEN <<"a", "i", "-", "r", "e", "s", "p", "o", "n", "s", "e">>
                   ELSE <<"u", "s", "e", "r", "-", "i", "n", "p", "u", "t">>}
             \cup (IF Len(text) > 200
                   THEN {<<"l", "o", "n", "g", "-", "f", "o", "r", "m">>}
                   ELSE IF Len(text) < 50
                   THEN {<<"s", "h", "o", "r", "t", "-", "f", "o", "r", "m">>}
                   ELSE {})) :
             text_lower \in {Lower(text)}} : TRUE

(***************************************************************************)
(* The chat interface: ChatInterface over a provider and the thought       *)
(* store.  A message of the history is a dict of role, content and         *)
(* timestamp; the clock has moved on between two readings of it.           *)
(***************************************************************************)
\* the character U+0060 (grave accent), which a TLA+ string cannot spell
Backtick == "U+0060"

RECURSIVE CollapseFrom(_, _)
\* re.sub(r'\s+', ' ', text), from position i on
CollapseFrom(text, i) ==
    IF i > Len(text) THEN <<>>
    ELSE IF ~IsSpace(text[i]) THEN <<text[i]>> \o CollapseFrom(text, i + 1)
    ELSE IF i > 1 /\ IsSpace(text[i - 1]) THEN CollapseFrom(text, i + 1)
    ELSE <<" ">> \o CollapseFrom(text, i + 1)

\* mark stands at position i of text
At(text, mark, i) ==
    /\ i + Len(mark) - 1 <= Len(text)
    /\ SubSeq(text, i, i + Len(mark) - 1) = mark

RECURSIVE UnwrapFrom(_, _, _)
\* re.sub(mark(.*?)mark, r'\1', text), from position i on: the leftmost
\* opening mark that has a closing one, and the nearest closing one
UnwrapFrom(text, mark, i) ==
    IF i > Len(text) THEN <<>>
    ELSE LET closing == {j \in i + Len(mark) .. Len(text) :
                             At(text, mark, i) /\ At(text, mark, j)}
         IN  IF closing = {}
             THEN <<text[i]>> \o UnwrapFrom(text, mark, i + 1)
             ELSE SubSeq(text, i + Len(mark), Least(closing) - 1)
                  \o UnwrapFrom(text, mark, Least(closing) + Len(mark))

\* clean_ai_response: whitespace collapsed, bold, italic and code marks
\* removed, a full stop added to a text that does not end a sentence
clean_ai_response(response) ==
    CHOOSE cleaned \in
        {IF coded # <<>> /\ coded[Len(coded)] \notin {".", "!", "?"}
         THEN coded \o <<".">>
         ELSE coded :
             coded \in
                 {UnwrapFrom(italic, <<Backtick>>, 1) :
                      italic \in
                          {UnwrapFrom(bold, <<"*">>, 1) :
                               bold \in
                                   {UnwrapFrom(spaced, <<"*", "*">>, 1) :
                                        spaced \in
                                            {CollapseFrom(stripped, 1) :
                                                 stripped \in
                                                     {Strip(response)}}}}}} :
        TRUE

\* log_thought_from_chat: the table after the message was logged as a
\* thought; a message the thought model rejects is reported and dropped
log_thought_from_chat(self, session, content, category, is_ai, utcnow) ==
    IF ~self.logging THEN session
    ELSE CHOOSE logged \in
             {IF Raised(thought) THEN session
              ELSE create_thought([nlp |-> nlp], session, thought.v,
                                  utcnow).session :
                  thought \in
                      {ThoughtCreate(category, text,
                                     extract_tags(text, is_ai),
                                     SomeStr(analyze_emotion(text)),
                                     SomeFloat(calculate_importance(text,
                                                                    is_ai))) :
                           text \in {content}}} : TRUE

\* add_to_history keeping the first 20 messages
add_to_history_keeps_oldest(self, role, content, timestamp) ==
    IF ~self.enable_history THEN self
    ELSE LET appended == Append(self.conversation_history,
                                [role |-> role, content |-> content,
                                 timestamp |-> timestamp])
             keep == self.max_history_length * 2
         IN  [self EXCEPT !.conversation_history =
                  IF Len(appended) > keep
                  THEN SubSeq(appended, 1, keep)
                  ELSE appended]

\* add_to_history: the message appended, and of more than 20 the last 20
add_to_history(self, role, content, timestamp) ==
    IF ~self.enable_history THEN self
    ELSE LET appended == Append(self.conversation_history,
                                [role |-> role, content |-> content,
                                 timestamp |-> timestamp])
             keep == self.max_history_length * 2
         IN  [self EXCEPT !.conversation_history =
                  IF Len(appended) > keep
                  THEN SubSeq(appended, Len(appended) - keep + 1,
                              Len(appended))
                  ELSE appended]

\* clear_history
clear_history(self) == [self EXCEPT !.conversation_history = <<>>]

RECURSIVE JoinLines(_)
\* "\n".join(parts)
JoinLines(parts) ==
    IF parts = <<>> THEN <<>>
    ELSE IF Len(parts) = 1 THEN parts[1]
    ELSE parts[1] \o <<"\n">> \o JoinLines(Tail(parts))

\* get_context_for_ai: the last 6 messages of the history, one a line, and
\* the current prompt as a last line of the user
get_context_for_ai(self, current_prompt) ==
    IF ~self.enable_history \/ self.conversation_history = <<>>
    THEN current_prompt
    ELSE LET history == self.conversation_history
             recent == SubSeq(history, Max(1, Len(history) - 5), Len(history))
             context_parts ==
                 [i \in DOMAIN recent |->
                     (IF recent[i].role = "user"
                      THEN <<"U", "s", "e", "r">>
                      ELSE <<"A", "s", "s", "i", "s", "t", "a", "n", "t">>)
                     \o <<":", " ">> \o recent[i].content]
         IN  JoinLines(Append(context_parts,
                              <<"U", "s", "e", "r", ":", " ">>
                              \o current_prompt))

\* the commands handle_command knows
Commands ==
    {<<"/", "q", "u", "i", "t">>, <<"/", "e", "x", "i", "t">>,
     <<"/", "h", "e", "l", "p">>, <<"/", "c", "l", "e", "a", "r">>,
     <<"/", "h", "i", "s", "t", "o", "r", "y">>,
     <<"/", "c", "l", "e", "a", "r", "-", "h", "i", "s", "t", "o", "r", "y">>,
     <<"/", "s", "t", "a", "t", "s">>}

\* handle_command: whether the input was a command, and the interface after
handle_command(self, user_input) ==
    LET command == Strip(Lower(user_input)) IN
    [handled |-> command \in Commands,
     self |-> IF command = <<"/", "c", "l", "e", "a", "r", "-", "h", "i", "s", "t", "o", "r", "y">>
              THEN clear_history(self) ELSE self]

\* get_streaming_response keeping the chunks a failed stream delivered
streaming_keeps_chunks(self, provider) ==
    IF provider.stream.exc = ""
    THEN Answered(clean_ai_response(
                      Flatten(SelectSeq(provider.stream.chunks,
                                        LAMBDA chunk : chunk # <<>>))))
    ELSE IF Raised(provider.call) THEN provider.call
    ELSE Answered(clean_ai_response(
                      Flatten(SelectSeq(provider.stream.chunks,
                                        LAMBDA chunk : chunk # <<>>))
                      \o provider.call.v))

\* get_streaming_response: the chunks of the stream put together, or, the
\* stream having raised, the answer of one ordinary call; provider is what
\* the provider does with the prompt: the chunks its stream yields and how
\* the stream ends, and the outcome of call_ai_model
get_streaming_response(self, provider) ==
    IF provider.stream.exc = ""
    THEN Answered(clean_ai_response(
                      Flatten(SelectSeq(provider.stream.chunks,
                                        LAMBDA chunk : chunk # <<>>))))
    ELSE IF Raised(provider.call) THEN provider.call
    ELSE Answered(clean_ai_response(provider.call.v))

\* AIProvider.stream_ai_model: the whole response as one chunk
stream_ai_model(response) ==
    IF Raised(response) THEN [chunks |-> <<>>, exc |-> response.exc]
    ELSE [chunks |-> <<response.v>>, exc |-> ""]

(***************************************************************************)
(* The chat interface's callers: the history called on its own, and the    *)
(* conversation loop of start_conversation, one reading of the input and   *)
(* one answer of the provider at a time                                    *)
(***************************************************************************)
Hi == <<"h", "i">>
Ok == <<"o", "k", ".">>

\* the history after n messages of a conversation, the user's first
Talked(n) ==
    [i \in 1 .. n |->
        [role |-> IF i % 2 = 1 THEN "user" ELSE "assistant",
         content |-> IF i % 2 = 1 THEN Hi ELSE Ok,
         timestamp |-> i]]

\* the lengths of the histories the runs start from, the calls a run makes
TalkedSizes == {0, 18, 19}
MaxHistoryCalls == 4

Roles == {"user", "assistant"}

InitHistory ==
    /\ ScorerIdle
    /\ settings = Settings_init
    /\ db = <<>>
    /\ last = NoOp
    /\ env = NoEnv
    /\ \E enable_history \in BOOLEAN, n \in TalkedSizes :
           /\ enable_history \/ n = 0
           /\ now = n
           /\ chat = [ChatInterface_init(FALSE, enable_history, FALSE)
                          EXCEPT !.conversation_history = Talked(n)]

\* a call of add_to_history
AddToHistory ==
    /\ last.served < MaxHistoryCalls
    /\ \E role \in Roles :
           /\ chat' = add_to_history(chat, role,
                                     IF role = "user" THEN Hi ELSE Ok, now + 1)
           /\ now' = IF chat.enable_history THEN now + 1 ELSE now
    /\ last' = [Served("add_to_history") EXCEPT
                    !.thoughts = chat.conversation_history]
    /\ UNCHANGED <<scorervars, settings, db, env>>

\* a call of clear_history
ClearHistory ==
    /\ last.served < MaxHistoryCalls
    /\ chat' = clear_history(chat)
    /\ last' = [Served("clear_history") EXCEPT
                    !.thoughts = chat.conversation_history]
    /\ UNCHANGED <<scorervars, settings, db, now, env>>

NextHistory == AddToHistory \/ ClearHistory

SpecHistory == InitHistory /\ [][NextHistory]_vars

\* what the user types at the prompt; the end of the input is no text
Typed ==
    {Hi, <<" ">>, <<"/", "h", "e", "l", "p">>,
     <<"/", "Q", "u", "i", "t">>,
     <<"/", "c", "l", "e", "a", "r", "-", "h", "i", "s", "t", "o", "r", "y">>,
     <<"/", "x", " ">>}
EndOfInput == <<"EOF">>

\* what call_ai_model does with a prompt
Calls ==
    {Answered(<<"o", "k">>),
     Answered(<<" ", "*", "h", "i", "*", "!", " ", " ">>),
     Answered(<<>>),
     RaisedWith("RuntimeError", <<"d", "o", "w", "n">>)}

\* what stream_ai_model does with a prompt: the chunks it yields, and the
\* exception that ends it if one does
Streams ==
    {stream_ai_model(Answered(<<"o", "k">>)),
     [chunks |-> <<<<"*", "h">>, <<>>, <<"i", "*">>>>, exc |-> ""],
     [chunks |-> <<>>, exc |-> ""],
     [chunks |-> <<<<"o">>>>, exc |-> "RuntimeError"]}

\* the providers of a conversation: with streaming off the stream is never
\* asked for, and a stream that runs to its end leaves the call unmade
Providers(enable_streaming) ==
    IF ~enable_streaming
    THEN {[NoProvider EXCEPT !.call = c] : c \in Calls}
    ELSE {[NoProvider EXCEPT !.stream = s] : s \in {t \in Streams : t.exc = ""}}
         \cup {[stream |-> s, call |-> c] :
                   s \in {t \in Streams : t.exc # ""}, c \in Calls}

\* the exchanges behind the conversations the runs start from, the inputs a
\* run reads
ExchangesBefore == {0, 3}
MaxInputs == 2

RECURSIVE Conversed(_, _, _)
\* the table after n exchanges of Hi answered Ok
Conversed(self, session, n) ==
    IF n = 0 THEN session
    ELSE CHOOSE answered \in
             {log_thought_from_chat(self, asked, Ok, "reflection", TRUE,
                                    4 * n) :
                  asked \in
                      {log_thought_from_chat(self, before, Hi, "perception",
                                             FALSE, 4 * n - 2) :
                           before \in {Conversed(self, session, n - 1)}}} :
             TRUE

\* the interface after n exchanges of Hi answered Ok
ConversedHistory(n) ==
    [i \in 1 .. 2 * n |->
        [role |-> IF i % 2 = 1 THEN "user" ELSE "assistant",
         content |-> IF i % 2 = 1 THEN Hi ELSE Ok,
         timestamp |-> 2 * i - 1]]

InitChat ==
    /\ ScorerIdle
    /\ settings = Settings_init
    /\ last = NoOp
    /\ env = NoEnv
    /\ \E logging \in BOOLEAN, enable_history \in BOOLEAN,
          enable_streaming \in BOOLEAN, n \in ExchangesBefore :
           LET self == ChatInterface_init(logging, enable_history,
                                          enable_streaming)
           IN  /\ now = 4 * n
               /\ db = Conversed(self, <<>>, n)
               /\ chat = IF n = 0 THEN self
                         ELSE [self EXCEPT
                                  !.conversation_active = TRUE,
                                  !.pc = "ask",
                                  !.conversation_history =
                                      IF enable_history
                                      THEN ConversedHistory(n) ELSE <<>>]

\* start_conversation up to the first prompt
StartConversation ==
    /\ chat.pc = "created"
    /\ chat' = [chat EXCEPT !.conversation_active = TRUE, !.pc = "ask"]
    /\ UNCHANGED <<scorervars, settings, db, now, last, env>>

\* the loop from the prompt to the logging of the user's message
Ask ==
    /\ chat.pc = "ask"
    /\ chat.asked < MaxInputs
    /\ \E typed \in Typed \cup {EndOfInput} :
       \E user_input \in {Strip(typed)} :
           LET command == handle_command(chat, user_input)
               asked == [chat EXCEPT !.asked = chat.asked + 1,
                                     !.user_input = user_input,
                                     !.prompt = <<>>,
                                     !.provider = NoProvider,
                                     !.reply = Answered(<<>>),
                                     !.logged = <<>>]
           IN  IF typed = EndOfInput
               THEN /\ chat' = [asked EXCEPT !.user_input = <<>>,
                                             !.conversation_active = FALSE,
                                             !.pc = "ended"]
                    /\ UNCHANGED <<db, now>>
               ELSE IF user_input = <<>>
               THEN /\ chat' = asked
                    /\ UNCHANGED <<db, now>>
               ELSE IF Head(user_input) = "/" /\ command.handled
               THEN /\ chat' =
                           IF Lower(user_input)
                                  \in {<<"/", "q", "u", "i", "t">>,
                                       <<"/", "e", "x", "i", "t">>}
                           THEN [asked EXCEPT !.conversation_active = FALSE,
                                              !.pc = "ended"]
                           ELSE [asked EXCEPT
                                    !.conversation_history =
                                        command.self.conversation_history]
                    /\ UNCHANGED <<db, now>>
               ELSE \E logged \in {log_thought_from_chat(
                                        chat, db, user_input, "perception",
                                        FALSE, now + 2)} :
                        /\ db' = logged
                        /\ now' = now + 2
                        /\ chat' =
                               [add_to_history(asked, "user", user_input,
                                               now + 1)
                                   EXCEPT !.pc = "respond",
                                          !.logged = SubSeq(logged, Len(db) + 1,
                                                            Len(logged))]
    /\ UNCHANGED <<scorervars, settings, last, env>>

\* the loop from the building of the prompt to the logging of the answer
Respond ==
    /\ chat.pc = "respond"
    /\ \E provider \in Providers(chat.enable_streaming) :
       \E prompt_to_use \in
              {IF chat.enable_history
               THEN get_context_for_ai(chat, chat.user_input)
               ELSE chat.user_input} :
       \E ai_response \in
              {IF chat.enable_streaming
               THEN get_streaming_response(chat, provider)
               ELSE IF Raised(provider.call) THEN provider.call
               ELSE Answered(clean_ai_response(provider.call.v))} :
       \E logged \in
              {IF Raised(ai_response)
               THEN log_thought_from_chat(
                        chat, db,
                        <<"A", "I", " ", "E", "r", "r", "o", "r", ":", " ">>
                        \o ai_response.v,
                        "error", TRUE, now + 2)
               ELSE log_thought_from_chat(
                        chat, db, ai_response.v, "reflection", TRUE,
                        now + 2)} :
           LET answered == [chat EXCEPT !.prompt = prompt_to_use,
                                        !.provider = provider,
                                        !.reply = ai_response,
                                        !.logged = SubSeq(logged, Len(db) + 1,
                                                          Len(logged)),
                                        !.pc = "ask"]
           IN  /\ db' = logged
               /\ now' = now + 2
               /\ chat' = IF Raised(ai_response) THEN answered
                          ELSE add_to_history(answered, "assistant",
                                              ai_response.v, now + 1)
    /\ UNCHANGED <<scorervars, settings, last, env>>

NextChat == StartConversation \/ Ask \/ Respond

SpecChat == InitChat /\ [][NextChat]_vars

(***************************************************************************)
(* The providers: get_provider over the environment the process runs in,   *)
(* that is the client libraries that import, the API keys the environment  *)
(* variables hold and the libraries whose client cannot be constructed     *)
(***************************************************************************)
\* the names get_provider knows, the class and the library behind each
ProviderClasses ==
    [gemini |-> "GeminiProvider", openai |-> "OpenAIProvider",
     claude |-> "ClaudeProvider", mock |-> "MockProvider"]
Libraries == {"gemini", "openai", "claude"}

\* the key an environment variable or an argument holds
Key == <<"k">>

\* bool(x) of an Optional[str]
TruthyStr(x) == ~x.is_none /\ x.v # <<>>

\* x or y
Or(x, y) == IF TruthyStr(x) THEN x ELSE y

\* os.getenv of the API key of a library
getenv(environ, library) ==
    IF library \in environ.keys THEN SomeStr(Key) ELSE NoneStr

\* a provider constructed, and a constructor that raised
Constructed(class, api_key, client) ==
    [exc |-> "", v |-> [class |-> class, api_key |-> api_key,
                        client |-> client]]
NotConstructed(e) == [exc |-> e, v |-> NoObject]

\* GeminiProvider(**kwargs): api_key is its one parameter
GeminiProvider_init(environ, kwargs) ==
    IF ~(kwargs.names \subseteq {"api_key"}) THEN NotConstructed("TypeError")
    ELSE LET api_key == Or(kwargs.api_key, getenv(environ, "gemini"))
             configures == TruthyStr(api_key) /\ "gemini" \in environ.installed
         IN  IF configures /\ "gemini" \in environ.broken
             THEN NotConstructed("Exception")
             ELSE Constructed("GeminiProvider", api_key, configures)

\* OpenAIProvider(**kwargs): api_key and model are its parameters
OpenAIProvider_init(environ, kwargs) ==
    IF ~(kwargs.names \subseteq {"api_key", "model"})
    THEN NotConstructed("TypeError")
    ELSE LET api_key == Or(kwargs.api_key, getenv(environ, "openai"))
             connects == TruthyStr(api_key) /\ "openai" \in environ.installed
         IN  IF connects /\ "openai" \in environ.broken
             THEN NotConstructed("Exception")
             ELSE Constructed("OpenAIProvider", api_key, connects)

\* ClaudeProvider(**kwargs): a client that cannot be constructed is left out
ClaudeProvider_init(environ, kwargs) ==
    IF ~(kwargs.names \subseteq {"api_key", "model"})
    THEN NotConstructed("TypeError")
    ELSE LET api_key == Or(kwargs.api_key, getenv(environ, "claude"))
             connects == TruthyStr(api_key) /\ "claude" \in environ.installed
         IN  Constructed("ClaudeProvider", api_key,
                         connects /\ "claude" \notin environ.broken)

\* MockProvider(**kwargs): the class has no __init__ and takes no argument
MockProvider_init(environ, kwargs) ==
    IF kwargs.names # {} THEN NotConstructed("TypeError")
    ELSE Constructed("MockProvider", NoneStr, FALSE)

\* provider.is_available()
is_available(environ, provider) ==
    CASE provider.class = "MockProvider" -> TRUE
      [] provider.class = "GeminiProvider" ->
             "gemini" \in environ.installed /\ ~provider.api_key.is_none
             /\ provider.client
      [] provider.class = "OpenAIProvider" ->
             "openai" \in environ.installed /\ ~provider.api_key.is_none
             /\ provider.client
      [] provider.class = "ClaudeProvider" ->
             "claude" \in environ.installed /\ ~provider.api_key.is_none
             /\ provider.client
      [] OTHER -> FALSE

\* get_provider: ValueError for a name it does not know, the provider of the
\* name constructed with the arguments, and MockProvider() in its place
\* when it is not available
get_provider(environ, provider_name, kwargs) ==
    IF provider_name \notin DOMAIN ProviderClasses
    THEN NotConstructed("ValueError")
    ELSE LET provider ==
                 CASE provider_name = "gemini" ->
                          GeminiProvider_init(environ, kwargs)
                   [] provider_name = "openai" ->
                          OpenAIProvider_init(environ, kwargs)
                   [] provider_name = "claude" ->
                          ClaudeProvider_init(environ, kwargs)
                   [] provider_name = "mock" ->
                          MockProvider_init(environ, kwargs)
         IN  IF Raised(provider) THEN provider
             ELSE IF ~is_available(environ, provider.v)
             THEN MockProvider_init(environ, NoKwargs)
             ELSE provider

\* the names asked for, and the keyword arguments passed
ProviderNames == {"gemini", "openai", "claude", "mock", "Gemini", "llama"}
KwargsSamples ==
    {NoKwargs,
     [names |-> {"api_key"}, api_key |-> SomeStr(Key)],
     [names |-> {"api_key"}, api_key |-> SomeStr(<<>>)],
     [names |-> {"model"}, api_key |-> NoneStr]}

InitProviders ==
    /\ ScorerIdle
    /\ settings = Settings_init
    /\ db = <<>>
    /\ now = 0
    /\ last = NoOp
    /\ chat = ChatInterface_init(TRUE, FALSE, FALSE)
    /\ \E installed \in SUBSET Libraries, keys \in SUBSET Libraries,
          broken \in SUBSET Libraries :
           env = [NoEnv EXCEPT !.installed = installed, !.keys = keys,
                               !.broken = broken]

\* a call of get_provider
GetProvider ==
    /\ ~env.asked
    /\ \E provider_name \in ProviderNames, kwargs \in KwargsSamples :
           env' = [env EXCEPT !.asked = TRUE, !.name = provider_name,
                              !.kwargs = kwargs,
                              !.got = get_provider(env, provider_name, kwargs)]
    /\ UNCHANGED <<scorervars, settings, db, now, last, chat>>

NextProviders == GetProvider

SpecProviders == InitProviders /\ [][NextProviders]_vars

(***************************************************************************)
(* Properties                                                              *)
(***************************************************************************)
Returned(t, op) == pc[t] = "returned" /\ call[t].op = op

\* the weighted sum of a metrics mapping, before any clamp
WeightedSum(m, w) ==
    (m.length_factor * w.length) \div WSCALE
    + (m.complexity_factor * w.complexity) \div WSCALE
    + (m.novelty_factor * w.novelty) \div WSCALE
    + (m.sentiment_factor * w.sentiment) \div WSCALE
    + (m.entropy_factor * w.entropy) \div WSCALE

InUnit(x) == 0 <= x /\ x <= FSCALE

\* the lower-cased whitespace tokens of a text
TokensOf(text) == Split(Lower(text))

\* the set of n-grams of a text, window by window
NgramSet(text, n) ==
    LET w == TokensOf(text) IN
    {JoinSpace(SubSeq(w, i, i + n - 1)) : i \in 1 .. (Len(w) - n + 1)}

RECURSIVE SumOverlap(_, _, _)
\* S: over the references with an n-gram, |C \cap R| / max(|C|, |R|)
SumOverlap(C, refs, n) ==
    IF refs = <<>> THEN 0
    ELSE LET R == NgramSet(Head(refs), n) IN
         (IF R = {} THEN 0
          ELSE (Cardinality(C \cap R) * FSCALE)
                   \div Max(Cardinality(C), Cardinality(R)))
         + SumOverlap(C, Tail(refs), n)

\* C1: for non-empty content, whatever the reference window and the five
\* weights (negative ones and ones summing to more than 1 included),
\* calculate_enhanced_importance returns an importance in [0.0, 1.0].
C1_ImportanceInUnitInterval ==
    \A t \in Threads :
        (Finished(t) /\ call[t].op = "calculate_enhanced_importance"
                     /\ call[t].text # <<>>)
            => /\ ~Raised(ret[t])
               /\ InUnit(ret[t].v[1])

\* a call whose weighted sum is negative has returned 0.0
C1_Witness ==
    \E t \in Threads :
        /\ Returned(t, "calculate_enhanced_importance")
        /\ call[t].text # <<>>
        /\ WeightedSum(ret[t].v[2], call[t].weights) < 0
        /\ ret[t].v[1] = 0

\* C2: with empty content calculate_enhanced_importance returns (0.0, {}),
\* whatever the weights and the reference window, and no factor has been
\* computed when it returns.
C2_EmptyContent ==
    \A t \in Threads :
        (Finished(t) /\ call[t].op = "calculate_enhanced_importance"
                     /\ call[t].text = <<>>)
            => /\ ~Raised(ret[t])
               /\ ret[t].v[1] = 0
               /\ DOMAIN ret[t].v[2] = {}
               /\ loc[t] = NoLoc

\* an empty content scored with other weights than the default and a window
C2_Witness ==
    \E t \in Threads :
        /\ Returned(t, "calculate_enhanced_importance")
        /\ call[t].text = <<>>
        /\ call[t].weights # DefaultWeights
        /\ Truthy(call[t].refs)

\* C3: two calls of calculate_enhanced_importance with the same content,
\* weights and reference window return the same importance and factors,
\* whatever calls were made before or between them.
C3_Deterministic ==
    \A t, u \in Threads :
        (Finished(t) /\ Finished(u) /\ call[t] = call[u]
                     /\ call[t].op = "calculate_enhanced_importance")
            => ret[t] = ret[u]

\* two callers hold the result of the same call on a non-empty content and window
C3_Witness ==
    \E t, u \in Threads :
        /\ t # u
        /\ Returned(t, "calculate_enhanced_importance")
        /\ Returned(u, "calculate_enhanced_importance")
        /\ call[t] = call[u]
        /\ call[t].text # <<>>
        /\ Truthy(call[t].refs)
        /\ ret[t] = ret[u]

\* C4: calls interleaved on the shared scorer each return what the same call
\* returns when run alone, and the stop-word set stays what the constructor
\* made it.
C4_Isolated ==
    /\ nlp = NLPAnalyzer_init
    /\ \A t \in Threads :
           Finished(t) => ret[t] = Eval(EnhancedThoughtScorer_init, call[t])

\* one caller has its importance while the other is past the stop-word filter
C4_Witness ==
    \E t, u \in Threads :
        /\ Returned(t, "calculate_enhanced_importance")
        /\ call[t].text # <<>>
        /\ pc[u] = "unique"
        /\ loc[u].keywords # <<>>

\* C5: calculate_novelty_score is 1.0 whenever reference_texts is empty, also
\* for a text with fewer than ngram_size tokens, and 0.5 whenever
\* reference_texts is not empty and the text has no n-gram.
C5_NoveltyDefaults ==
    \A t \in Threads :
        (Finished(t) /\ call[t].op = "calculate_novelty_score")
            => /\ ~Raised(ret[t])
               /\ call[t].refs.list = <<>> => ret[t].v = FSCALE
               /\ (call[t].refs.list # <<>> /\ Len(TokensOf(call[t].text)) < call[t].n)
                      => ret[t].v = FSCALE \div 2

\* a text too short for an n-gram, scored against no reference, got 1.0
C5_Witness ==
    \E t \in Threads :
        /\ Returned(t, "calculate_novelty_score")
        /\ call[t].refs.list = <<>>
        /\ call[t].text # <<>>
        /\ Len(TokensOf(call[t].text)) < call[t].n
        /\ ret[t].v = FSCALE

\* C6: with references and at least one n-gram in the text, the novelty is
\* max(0, 1 - min(S / len(reference_texts), 1)), S summing
\* |C \cap R| / max(|C|, |R|) over the references that have an n-gram; the
\* references without one still count in len(reference_texts).
C6_NoveltyFormula ==
    \A t \in Threads :
        (Finished(t) /\ call[t].op = "calculate_novelty_score"
                     /\ call[t].refs.list # <<>>
                     /\ NgramSet(call[t].text, call[t].n) # {})
            => /\ ~Raised(ret[t])
               /\ ret[t].v =
                      Max(0, FSCALE - Min(SumOverlap(NgramSet(call[t].text, call[t].n),
                                                     call[t].refs.list, call[t].n)
                                              \div Len(call[t].refs.list),
                                          FSCALE))

\* a window with a reference that overlaps and one that has no n-gram
C6_Witness ==
    \E t \in Threads :
        /\ Returned(t, "calculate_novelty_score")
        /\ NgramSet(call[t].text, call[t].n) # {}
        /\ \E i \in DOMAIN call[t].refs.list :
               NgramSet(call[t].refs.list[i], call[t].n) = {}
        /\ SumOverlap(NgramSet(call[t].text, call[t].n), call[t].refs.list,
                      call[t].n) > 0
        /\ 0 < ret[t].v /\ ret[t].v < FSCALE

\* C7: for a text of at least 3 tokens the novelty against references that
\* all have the text's own set of 3-grams, the text itself among them, is 0.0.
C7_SelfNoveltyZero ==
    \A t \in Threads :
        (Finished(t) /\ call[t].op = "calculate_novelty_score"
                     /\ call[t].n = 3
                     /\ Len(Split(call[t].text)) >= 3
                     /\ call[t].refs.list # <<>>
                     /\ \A i \in DOMAIN call[t].refs.list :
                            NgramSet(call[t].refs.list[i], 3) = NgramSet(call[t].text, 3))
            => /\ ~Raised(ret[t])
               /\ ret[t].v = 0

\* calculate_novelty_score(x, [x]) for an x of four tokens returned 0.0
C7_Witness ==
    \E t \in Threads :
        /\ Returned(t, "calculate_novelty_score")
        /\ call[t].refs.list = <<call[t].text>>
        /\ Len(Split(call[t].text)) >= 4
        /\ ret[t].v = 0

\* C8: for non-empty content every entry of the factors mapping is in [0,1]
\* and final_importance is the importance returned.
C8_FactorsInUnitInterval ==
    \A t \in Threads :
        (Finished(t) /\ call[t].op = "calculate_enhanced_importance"
                     /\ call[t].text # <<>>)
            => /\ ~Raised(ret[t])
               /\ DOMAIN ret[t].v[2] =
                      {"length_factor", "complexity_factor", "novelty_factor",
                       "sentiment_factor", "entropy_factor", "final_importance"}
               /\ \A k \in DOMAIN ret[t].v[2] : InUnit(ret[t].v[2][k])
               /\ ret[t].v[2].final_importance = ret[t].v[1]

\* a content with a sentiment and a half-novel window, its weighted sum above 1
C8_Witness ==
    \E t \in Threads :
        /\ Returned(t, "calculate_enhanced_importance")
        /\ call[t].text # <<>>
        /\ ret[t].v[2].sentiment_factor = FSCALE
        /\ ret[t].v[2].novelty_factor = FSCALE \div 2
        /\ WeightedSum(ret[t].v[2], call[t].weights) > FSCALE

\* C9: no Extractor operation raises, on any text; on the empty string
\* extract_keywords returns no keyword, calculate_keyword_density an empty
\* mapping, calculate_repetition_score 0.0, calculate_entropy 0.0,
\* extract_ngrams an empty list, analyze_sentiment_basic (neutral, 0.5) and
\* calculate_complexity_score 0.0.
C9_ExtractorTotal ==
    \A t \in Threads :
        /\ pc[t] # "raised"
        /\ (pc[t] = "returned" /\ call[t].text = <<>>) =>
               CASE call[t].op = "extract_keywords" -> ret[t].v = <<>>
                 [] call[t].op = "calculate_keyword_density" -> DOMAIN ret[t].v = {}
                 [] call[t].op = "calculate_repetition_score" -> ret[t].v = 0
                 [] call[t].op = "calculate_entropy" -> ret[t].v = 0
                 [] call[t].op = "extract_ngrams" -> ret[t].v = <<>>
                 [] call[t].op = "analyze_sentiment_basic" ->
                        ret[t].v = <<"neutral", FSCALE \div 2>>
                 [] call[t].op = "calculate_complexity_score" -> ret[t].v = 0
                 [] OTHER -> TRUE

\* calculate_complexity_score returned 0.0 for a text of whitespace only
C9_Witness ==
    \E t \in Threads :
        /\ Returned(t, "calculate_complexity_score")
        /\ call[t].text # <<>>
        /\ Split(call[t].text) = <<>>
        /\ ret[t].v = 0

\* the number of matches of the keyword pattern in text that are k
Occurrences(k, text) ==
    LET words == FindAll(Lower(text), 3) IN
    Cardinality({i \in DOMAIN words : words[i] = k})

\* C10: the density of every keyword extract_keywords returns is its number
\* of occurrences in the text over the number of whitespace tokens, and the
\* mapping is empty for a text without tokens.
C10_DensityIsOccurrences ==
    \A t \in Threads :
        Returned(t, "calculate_keyword_density") =>
            LET text == call[t].text
                total == Len(Split(text))
            IN  IF total = 0 THEN DOMAIN ret[t].v = {}
                ELSE \A k \in Range(extract_keywords(nlp, text, 3)) :
                         /\ k \in DOMAIN ret[t].v
                         /\ ret[t].v[k] = (Occurrences(k, text) * FSCALE) \div total

\* all elements of a sequence differ
Distinct(xs) == \A i, j \in DOMAIN xs : xs[i] = xs[j] => i = j

\* C11 as stated: calculate_repetition_score(text) is 0.0 whenever the
\* whitespace tokens of text, as written, are all distinct.
C11_DistinctTokensAsWritten ==
    \A t \in Threads :
        (Returned(t, "calculate_repetition_score") /\ Distinct(Split(call[t].text)))
            => ret[t].v = 0

\* C11: calculate_repetition_score(text) is 0.0 whenever the lower-cased
\* whitespace tokens of text are all distinct.
C11_DistinctLoweredTokens ==
    \A t \in Threads :
        (Finished(t) /\ call[t].op = "calculate_repetition_score"
                     /\ Distinct(TokensOf(call[t].text)))
            => /\ ~Raised(ret[t])
               /\ ret[t].v = 0

\* a text of three tokens that still differ once lower-cased scored 0.0
C11_Witness ==
    \E t \in Threads :
        /\ Returned(t, "calculate_repetition_score")
        /\ Len(TokensOf(call[t].text)) >= 3
        /\ Distinct(TokensOf(call[t].text))
        /\ Lower(call[t].text) # call[t].text
        /\ ret[t].v = 0

\* C12: calculate_repetition_score(text) is 1 - (distinct lower-cased
\* whitespace tokens / whitespace tokens), 0.0 for a text of at most one
\* token, and in [0.0, 1.0] for every text.
C12_RepetitionFormula ==
    \A t \in Threads :
        (Finished(t) /\ call[t].op = "calculate_repetition_score") =>
            LET raw == Split(call[t].text)
                lowered == {Lower(raw[i]) : i \in DOMAIN raw}
            IN  /\ ~Raised(ret[t])
                /\ InUnit(ret[t].v)
                /\ Len(raw) <= 1 => ret[t].v = 0
                /\ Len(raw) > 1 =>
                       ret[t].v = FSCALE - (Cardinality(lowered) * FSCALE) \div Len(raw)

\* tokens that differ by case only were counted as one: the score is above 0
C12_Witness ==
    \E t \in Threads :
        /\ Returned(t, "calculate_repetition_score")
        /\ Distinct(Split(call[t].text))
        /\ ~Distinct(TokensOf(call[t].text))
        /\ 0 < ret[t].v /\ ret[t].v < FSCALE

\* the distinct lower-cased whitespace tokens of a text, each as one value
TokenSet(text) == LET w == TokensOf(text) IN {Str(w[i]) : i \in DOMAIN w}

\* p and n of a text: its distinct tokens in each word set
PositiveIn(text) == Cardinality(TokenSet(text) \cap positive_words)
NegativeIn(text) == Cardinality(TokenSet(text) \cap negative_words)

\* C13: with p and n the numbers of distinct lower-cased tokens in the
\* positive and the negative word set, analyze_sentiment_basic returns
\* (neutral, 0.5) if p + n = 0 and otherwise, with s = p / (p + n),
\* (positive, s) if s > 0.6, (negative, 1 - s) if s < 0.4, else (neutral, 0.5).
C13_SentimentRule ==
    \A t \in Threads :
        (Finished(t) /\ call[t].op = "analyze_sentiment_basic") =>
            LET pos == PositiveIn(call[t].text)
                neg == NegativeIn(call[t].text)
                s == (pos * FSCALE) \div (pos + neg)
            IN  /\ ~Raised(ret[t])
                /\ ret[t].v =
                       IF pos + neg = 0 THEN <<"neutral", FSCALE \div 2>>
                       ELSE IF 10 * pos > 6 * (pos + neg) THEN <<"positive", s>>
                       ELSE IF 10 * pos < 4 * (pos + neg) THEN <<"negative", FSCALE - s>>
                       ELSE <<"neutral", FSCALE \div 2>>

\* three positive and two negative words: s is exactly 0.6, which is neutral
C13_Witness ==
    \E t \in Threads :
        /\ Returned(t, "analyze_sentiment_basic")
        /\ PositiveIn(call[t].text) = 3
        /\ NegativeIn(call[t].text) = 2
        /\ ret[t].v = <<"neutral", FSCALE \div 2>>

WrittenTokenSet(text) == LET w == Split(text) IN {Str(w[i]) : i \in DOMAIN w}

Lexicon == positive_words \cup negative_words

\* what C15 says of a call: a neutral sentiment of strength 0.5, or a novelty
\* factor 1.0, a sentiment factor 0.3 and the default-weighted sum, clamped
NeutralOutcome(t) ==
    /\ ~Raised(ret[t])
    /\ call[t].op = "analyze_sentiment_basic" =>
           ret[t].v = <<"neutral", FSCALE \div 2>>
    /\ call[t].op = "calculate_enhanced_importance" =>
           LET m == ret[t].v[2] IN
           /\ m.novelty_factor = FSCALE
           /\ m.sentiment_factor = (3 * FSCALE) \div 10
           /\ ret[t].v[1] =
                  Max(0, Min((m.length_factor * 20) \div WSCALE
                             + (m.complexity_factor * 25) \div WSCALE
                             + (FSCALE * 30) \div WSCALE
                             + (((3 * FSCALE) \div 10) * 15) \div WSCALE
                             + (m.entropy_factor * 10) \div WSCALE, FSCALE))

\* a sentiment call, or a scoring with the default weights and no reference
NeutralCase(t) ==
    /\ Finished(t)
    /\ call[t].text # <<>>
    /\ \/ call[t].op = "analyze_sentiment_basic"
       \/ /\ call[t].op = "calculate_enhanced_importance"
          /\ call[t].weights = DefaultWeights
          /\ ~Truthy(call[t].refs)

\* C15 as stated: the help question, and any content none of whose whitespace
\* tokens, as written, is in either word set, is (neutral, 0.5) and scores
\* novelty 1.0, sentiment 0.3 and the clamped default-weighted sum.
C15_NoWrittenTokenInLexicon ==
    \A t \in Threads :
        (NeutralCase(t) /\ WrittenTokenSet(call[t].text) \cap Lexicon = {})
            => NeutralOutcome(t)

\* C15: the help question, and any non-empty content none of whose
\* lower-cased whitespace tokens is in either word set, is (neutral, 0.5) and,
\* with the default weights and no reference, scores novelty 1.0, sentiment
\* 0.3 and clamp(0.2*length + 0.25*complexity + 0.3*1.0 + 0.15*0.3
\* + 0.1*entropy, 0, 1).
C15_NoLoweredTokenInLexicon ==
    \A t \in Threads :
        (NeutralCase(t) /\ (\/ call[t].text = HelpQuestion
                            \/ TokenSet(call[t].text) \cap Lexicon = {}))
            => NeutralOutcome(t)

\* the help question was scored with the default weights and an empty window
C15_Witness ==
    \E t \in Threads :
        /\ Returned(t, "calculate_enhanced_importance")
        /\ call[t].text = HelpQuestion
        /\ call[t].weights = DefaultWeights
        /\ call[t].refs = Some(<<>>)
        /\ ret[t].v[2].sentiment_factor = (3 * FSCALE) \div 10
        /\ ret[t].v[1] > FSCALE \div 2

\* the novelty of a text against a non-empty window, from the n-gram sets
NoveltyOf(text, refs, n) ==
    IF NgramSet(text, n) = {} THEN FSCALE \div 2
    ELSE Max(0, FSCALE - Min(SumOverlap(NgramSet(text, n), refs, n) \div Len(refs),
                             FSCALE))

\* C16: novelty_factor is 1.0 when the reference window is absent or empty,
\* and otherwise the novelty of the content against the window with n-grams
\* of size 3: 0.5, not 1.0, when the content has fewer than 3 tokens.
C16_NoveltyFactor ==
    \A t \in Threads :
        (Finished(t) /\ call[t].op = "calculate_enhanced_importance"
                     /\ call[t].text # <<>>)
            => /\ ~Raised(ret[t])
               /\ ret[t].v[2].novelty_factor =
                      IF call[t].refs.is_none \/ call[t].refs.list = <<>>
                      THEN FSCALE
                      ELSE NoveltyOf(call[t].text, call[t].refs.list, 3)
               /\ (Truthy(call[t].refs) /\ Len(TokensOf(call[t].text)) < 3)
                      => ret[t].v[2].novelty_factor = FSCALE \div 2

\* a content of two tokens, both in a reference of the window, got 0.5
C16_Witness ==
    \E t \in Threads :
        /\ Returned(t, "calculate_enhanced_importance")
        /\ Len(TokensOf(call[t].text)) = 2
        /\ Truthy(call[t].refs)
        /\ \E i \in DOMAIN call[t].refs.list :
               Range(TokensOf(call[t].text)) \subseteq Range(TokensOf(call[t].refs.list[i]))
        /\ ret[t].v[2].novelty_factor = FSCALE \div 2

\* caller t holds the factors of a non-empty content scored with the default
\* weights and no reference
DefaultScored(t) ==
    /\ Returned(t, "calculate_enhanced_importance")
    /\ call[t].text # <<>>
    /\ call[t].weights = DefaultWeights
    /\ ~Truthy(call[t].refs)

\* the two contents differ in nothing the importance depends on but length
SameButLength(t, u) ==
    /\ ret[t].v[2].complexity_factor = ret[u].v[2].complexity_factor
    /\ ret[t].v[2].sentiment_factor = ret[u].v[2].sentiment_factor
    /\ ret[t].v[2].entropy_factor = ret[u].v[2].entropy_factor

\* C17: length_factor is min(len(content) / 500, 1.0), and of two non-empty
\* contents a, b scored with the default weights and no reference, with
\* len(a) <= len(b) <= 500 and equal complexity, sentiment and entropy
\* factors, b's importance is at least a's.
C17_LengthMonotone ==
    /\ \A t \in Threads :
           (Finished(t) /\ call[t].op = "calculate_enhanced_importance"
                        /\ call[t].text # <<>>)
               => /\ ~Raised(ret[t])
                  /\ ret[t].v[2].length_factor =
                         Min((Len(call[t].text) * FSCALE) \div 500, FSCALE)
    /\ \A t, u \in Threads :
           (DefaultScored(t) /\ DefaultScored(u) /\ SameButLength(t, u)
                /\ Len(call[t].text) <= Len(call[u].text)
                /\ Len(call[u].text) <= 500)
               => ret[t].v[1] <= ret[u].v[1]

\* two contents alike but for one character: the longer scored higher
C17_Witness ==
    \E t, u \in Threads :
        /\ DefaultScored(t) /\ DefaultScored(u) /\ SameButLength(t, u)
        /\ Len(call[t].text) + 1 = Len(call[u].text)
        /\ Len(call[u].text) <= 500
        /\ Range(call[u].text) = {"a"}
        /\ ret[t].v[1] < ret[u].v[1]

\* the maximal runs of ASCII letters of s
AlphabeticRuns(s) ==
    {SubSeq(s, r[1], r[2]) : r \in
        {q \in (DOMAIN s) \X (DOMAIN s) :
            /\ q[1] <= q[2]
            /\ \A k \in q[1] .. q[2] : IsAsciiLetter(s[k])
            /\ q[1] = 1 \/ ~IsAsciiLetter(s[q[1] - 1])
            /\ q[2] = Len(s) \/ ~IsAsciiLetter(s[q[2] + 1])}}

\* C18: extract_keywords(text, min_length) returns exactly the lower-cased
\* maximal alphabetic runs of text of length at least min_length that are not
\* stop words, a run next to a digit or an underscore included, and returns
\* no element twice.
C18_KeywordsAreAlphabeticRuns ==
    \A t \in Threads :
        Returned(t, "extract_keywords") =>
            /\ Distinct(ret[t].v)
            /\ Range(ret[t].v) =
                   {Str(w) : w \in
                       {x \in AlphabeticRuns(Lower(call[t].text)) :
                           /\ Len(x) >= call[t].n
                           /\ Str(x) \notin nlp.stop_words}}

\* the number of places of s that hold the character c
CountOf(s, c) == Cardinality({i \in DOMAIN s : s[i] = c})

\* the three terms of the complexity of a text that has words
ComplexityOf(text) ==
    LET words == Split(text)
        letters == Cardinality({i \in DOMAIN text : ~IsSpace(text[i])})
        segments == CountOf(text, ".") + 1
        unique == Cardinality({Str(words[i]) : i \in DOMAIN words})
        avg_word == (letters * FSCALE) \div Len(words)
        avg_sentence == (Len(words) * FSCALE) \div segments
        richness == (unique * FSCALE) \div Len(words)
    IN  (Min(avg_word \div 10, FSCALE) * 3) \div 10
        + (Min(avg_sentence \div 20, FSCALE) * 4) \div 10
        + (richness * 3) \div 10

\* C19: calculate_complexity_score(text) is 0.3 * min(average word length /
\* 10, 1) + 0.4 * min(average sentence length / 20, 1) + 0.3 * (unique words
\* / total words), the average sentence length being the number of words over
\* the number of '.'-delimited segments; it is in [0, 1] for every text, and
\* 0.0 for the empty text and for a text without words.
C19_ComplexityFormula ==
    \A t \in Threads :
        (Finished(t) /\ call[t].op = "calculate_complexity_score")
            => /\ ~Raised(ret[t])
               /\ InUnit(ret[t].v)
               /\ ret[t].v = IF Split(call[t].text) = <<>> THEN 0
                             ELSE ComplexityOf(call[t].text)

\* 41 words and a '.' at the end: the empty last segment is counted, and at
\* more than 20 words to a segment the sentence term is at its cap
C19_Witness ==
    \E t \in Threads :
        /\ Returned(t, "calculate_complexity_score")
        /\ call[t].text # <<>>
        /\ call[t].text[Len(call[t].text)] = "."
        /\ Len(Split(call[t].text)) = 41
        /\ CountOf(call[t].text, ".") = 1
        /\ ret[t].v = ComplexityOf(call[t].text)
        /\ 0 < ret[t].v /\ ret[t].v < FSCALE

\* C20: calculate_entropy returns 0.0 for the empty string and for a text of
\* one repeated symbol, a strictly positive value for a text with at least
\* two distinct lower-cased characters, and never a negative value.
C20_EntropySign ==
    \A t \in Threads :
        Returned(t, "calculate_entropy") =>
            /\ ret[t].v >= 0
            /\ call[t].text = <<>> => ret[t].v = 0
            /\ Cardinality(Range(call[t].text)) = 1 => ret[t].v = 0
            /\ Cardinality(Range(Lower(call[t].text))) >= 2 => ret[t].v > 0

RECURSIVE SpacedChars(_)
\* the characters of the words with one space between a word and the next
SpacedChars(words) ==
    IF words = <<>> THEN <<>>
    ELSE IF Len(words) = 1 THEN words[1]
    ELSE words[1] \o <<" ">> \o SpacedChars(Tail(words))

\* C21: for n >= 1, extract_ngrams(text, n) returns max(0, t - n + 1)
\* strings, t the number of whitespace tokens of text; the i-th is the
\* lower-cased tokens i..i+n-1 joined by single spaces, in text order, and
\* there is none when t < n.
C21_NgramWindows ==
    \A t \in Threads :
        (Finished(t) /\ call[t].op = "extract_ngrams" /\ call[t].n >= 1) =>
            LET tokens == Split(call[t].text)
                n == call[t].n
            IN  /\ ~Raised(ret[t])
                /\ Len(ret[t].v) = Max(0, Len(tokens) - n + 1)
                /\ Len(tokens) < n => ret[t].v = <<>>
                /\ \A i \in DOMAIN ret[t].v :
                       ret[t].v[i] =
                           Str(SpacedChars([k \in 1 .. n |-> Lower(tokens[i + k - 1])]))

\* three windows of two tokens from a text with capitals and a tab
C21_Witness ==
    \E t \in Threads :
        /\ Returned(t, "extract_ngrams")
        /\ call[t].n = 2
        /\ Len(ret[t].v) = 3
        /\ "\t" \in Range(call[t].text)
        /\ Lower(call[t].text) # call[t].text
        /\ ret[t].v[1] # ret[t].v[3]

(***************************************************************************)
(* The thought store                                                       *)
(***************************************************************************)
\* w lists the contents of the n latest rows of S, or of all of S when it has
\* fewer, from the latest back
ListsLatest(w, S, n) ==
    /\ Len(w) = Min(n, Cardinality(S))
    /\ \A i \in DOMAIN w :
           \E r \in S :
               /\ Cardinality({q \in S : q.timestamp > r.timestamp}) = i - 1
               /\ w[i] = r.content

\* the rows of the table before the latest request was served
RowsBefore ==
    IF last.op = "recalculate_importance_bulk" THEN Range(last.thoughts)
    ELSE {r \in Range(db) : ~(last.op = "create_thought" /\ r.id = last.id)}

\* C22: every reference window handed to the scorer is bounded: create_thought
\* hands over the contents of the 10 latest stored thoughts, the latest
\* first, get_nlp_analysis those of the 20 latest thoughts other than the
\* analysed one, and recalculate_importance_bulk, for each thought it
\* rescores, those of the 10 latest thoughts strictly older than it.
C22_WindowsBounded ==
    /\ last.op = "create_thought" =>
           \A i \in DOMAIN last.windows :
               ListsLatest(last.windows[i], RowsBefore, 10)
    /\ last.op = "get_nlp_analysis" =>
           \A i \in DOMAIN last.windows :
               ListsLatest(last.windows[i],
                           {r \in RowsBefore : r.id # last.id}, 20)
    /\ last.op = "recalculate_importance_bulk" =>
           \A i \in DOMAIN last.windows :
               \E r \in RowsBefore :
                   /\ Cardinality({q \in RowsBefore :
                                      q.timestamp > r.timestamp}) = i - 1
                   /\ ListsLatest(last.windows[i],
                                  {q \in RowsBefore :
                                      q.timestamp < r.timestamp}, 10)

\* a thought was created and scored over a table of more than 10 thoughts
C22_Witness ==
    /\ last.op = "create_thought"
    /\ last.exc = ""
    /\ Len(last.windows) = 1
    /\ Len(last.windows[1]) = 10
    /\ Cardinality(RowsBefore) > 10

\* the row the latest request created
Created == CHOOSE r \in Range(db) : r.id = last.id

\* a create_thought request was served and its row inserted
CreatedOne ==
    /\ last.op = "create_thought"
    /\ last.exc = ""
    /\ \E r \in Range(db) : r.id = last.id

Recalculated ==
    /\ last.op = "recalculate_importance_bulk"
    /\ last.exc = ""

\* the rows the latest recalculation selected: the latest limit rows, or all
\* of them when the limit is None or 0
Selected ==
    {r \in RowsBefore :
        \/ last.limit.is_none
        \/ last.limit.v = 0
        \/ Cardinality({q \in RowsBefore : q.timestamp > r.timestamp})
               < last.limit.v}

\* the importance the latest recalculation computed for a selected row
Recomputed(r) ==
    LET i == 1 + Cardinality({q \in RowsBefore : q.timestamp > r.timestamp})
    IN  calculate_enhanced_importance([nlp |-> nlp], r.content, DefaultWeights,
                                      Some(last.windows[i])).v[1]

\* the recomputed importance is more than 0.1 away from the stored one
Moved(r) ==
    LET stored == IF r.importance.is_none THEN 0 ELSE r.importance.v
        new == Recomputed(r)
    IN  10 * (new - stored) > FSCALE \/ 10 * (stored - new) > FSCALE

\* C26: recalculate_importance_bulk rewrites the importance of exactly the
\* selected thoughts whose recomputed importance is more than 0.1 away from
\* the stored one (a missing one read as 0.0), returns their number, leaves
\* every other field and every other thought as they were, and run once more
\* with the same limit returns 0 and changes nothing.
C26_RecalculateIdempotent ==
    Recalculated =>
        /\ Len(db) = Len(last.thoughts)
        /\ \A i \in DOMAIN db :
               LET before == last.thoughts[i] IN
               IF before \in Selected /\ Moved(before)
               THEN db[i] = [before EXCEPT
                                !.importance = SomeFloat(Recomputed(before))]
               ELSE db[i] = before
        /\ last.count = Cardinality({r \in Selected : Moved(r)})
        /\ LET again == recalculate_importance_bulk([nlp |-> nlp], db,
                                                    last.limit)
           IN  again.r = Ret(0) /\ again.session = db

\* a recalculation rewrote some of the thoughts it selected, not all, one of
\* them with no importance stored, and left an unselected thought alone
C26_Witness ==
    /\ Recalculated
    /\ last.count > 0
    /\ \E r \in Selected : ~Moved(r)
    /\ \E r \in Selected : Moved(r) /\ r.importance.is_none
    /\ \E r \in RowsBefore : r \notin Selected

\* an export was asked for in JSON or CSV
ExportAsked ==
    /\ last.op \in {"export", "export_thoughts"}
    /\ Lower(last.format) \in {<<"j", "s", "o", "n">>, <<"c", "s", "v">>}

\* the stored thoughts the filters of the latest export let through
Matching == Range(apply_filters(db, last.filters))

\* C24: an export in JSON or CSV with at least one stored thought matching
\* its filters ends without error and writes exactly the matching thoughts.
C24_ExportWritesMatching ==
    ExportAsked /\ Matching # {} =>
        /\ last.exc = ""
        /\ last.count = 0
        /\ last.found
        /\ Range(last.thoughts) = Matching

(***************************************************************************)
(* The chat interface                                                      *)
(***************************************************************************)
\* the last n elements of a sequence, in their order
LastOf(seq, n) ==
    LET m == Min(n, Len(seq)) IN
    [i \in 1 .. m |-> seq[Len(seq) - m + i]]

\* C27: after any calls of add_to_history and clear_history the history
\* holds at most 20 messages; a call of add_to_history with the history
\* enabled leaves the 20 most recent of the earlier messages and the new
\* one, in their order, the new one last; with the history disabled the
\* history stays empty
C27_HistoryBounded ==
    LET history == chat.conversation_history IN
    /\ Len(history) <= 20
    /\ (~chat.enable_history => history = <<>>)
    /\ (last.op = "add_to_history" /\ chat.enable_history =>
            /\ history # <<>>
            /\ history[Len(history)].timestamp = now
            /\ \A i \in DOMAIN last.thoughts :
                   last.thoughts[i].timestamp < now
            /\ history = LastOf(Append(last.thoughts, history[Len(history)]),
                                20))
    /\ (last.op = "clear_history" => history = <<>>)

\* a 21st message was added and the oldest one dropped
C27_Witness ==
    /\ last.op = "add_to_history"
    /\ chat.enable_history
    /\ Len(last.thoughts) = 20
    /\ Len(chat.conversation_history) = 20
    /\ chat.conversation_history[1] = last.thoughts[2]
    /\ chat.conversation_history[20].timestamp = now

\* the loop has just logged the answer to a message
JustAnswered == chat.pc = "ask" /\ chat.prompt # <<>>

\* the history as it was before the message just answered was added to it
EarlierHistory ==
    LET history == chat.conversation_history IN
    SubSeq(history, 1,
           Len(history) - (IF Raised(chat.reply) THEN 1 ELSE 2))

\* the line of the prompt for a message of the history
PromptLine(msg) ==
    (IF msg.role = "user" THEN <<"U", "s", "e", "r", ":", " ">>
     ELSE <<"A", "s", "s", "i", "s", "t", "a", "n", "t", ":", " ">>)
    \o msg.content

\* C28: with history enabled, the prompt sent to the provider for a message
\* is the lines of the 6 most recent earlier messages of the history at
\* most, in their order, and a last line "User: " and the message, so that
\* the message is in the prompt once
C28_PromptHoldsMessageOnce ==
    JustAnswered /\ chat.enable_history =>
        LET recent == LastOf(EarlierHistory, 6) IN
        chat.prompt =
            JoinLines([i \in 1 .. Len(recent) + 1 |->
                          IF i <= Len(recent) THEN PromptLine(recent[i])
                          ELSE <<"U", "s", "e", "r", ":", " ">>
                               \o chat.user_input])

\* C23: with logging enabled, a message of the user is logged as one
\* perception thought before the provider is asked, and the answer as one
\* thought after it: a reflection holding the cleaned response when the
\* provider returned, an error when it raised; the loop then goes on
C23_BothSidesLogged ==
    chat.logging =>
        /\ (chat.pc = "respond" =>
                /\ Len(chat.logged) = 1
                /\ chat.logged[1].category = "perception"
                /\ chat.logged[1].content = chat.user_input
                /\ db # <<>> /\ db[Len(db)] = chat.logged[1])
        /\ (JustAnswered =>
                /\ chat.conversation_active
                /\ Len(chat.logged) = 1
                /\ db # <<>> /\ db[Len(db)] = chat.logged[1]
                /\ IF Raised(chat.reply)
                   THEN chat.logged[1].category = "error"
                   ELSE /\ chat.logged[1].category = "reflection"
                        /\ chat.logged[1].content = chat.reply.v)

\* C30: get_streaming_response returns the cleaned concatenation of the
\* chunks of a stream that ran to its end; when the stream raised, the
\* cleaned answer of one ordinary call, none of the chunks in it; and when
\* that call raised too, the loop gets the exception and logs an error
\* thought
C30_StreamingFallsBack ==
    JustAnswered /\ chat.enable_streaming =>
        LET stream == chat.provider.stream
            fallback == chat.provider.call
        IN  /\ (stream.exc = "" =>
                    chat.reply = Answered(clean_ai_response(
                                              Flatten(stream.chunks))))
            /\ (stream.exc # "" /\ ~Raised(fallback) =>
                    chat.reply = Answered(clean_ai_response(fallback.v)))
            /\ (stream.exc # "" /\ Raised(fallback) =>
                    /\ chat.reply = fallback
                    /\ Len(chat.logged) = (IF chat.logging THEN 1 ELSE 0)
                    /\ \A i \in DOMAIN chat.logged :
                           /\ chat.logged[i].category = "error"
                           /\ chat.logged[i].content
                                  = <<"A", "I", " ", "E", "r", "r", "o", "r",
                                      ":", " ">> \o fallback.v)

\* a stream raised after a chunk and the ordinary call answered
C30_Witness ==
    /\ JustAnswered
    /\ chat.enable_streaming
    /\ chat.provider.stream.exc # ""
    /\ chat.provider.stream.chunks # <<>>
    /\ ~Raised(chat.provider.call)
    /\ chat.reply = Answered(<<"o", "k", ".">>)

\* C29: get_provider raises ValueError for a name it does not know, and for
\* a name it knows returns an available provider: the one asked for when
\* that is available, a MockProvider otherwise
C29_ProviderAvailable ==
    env.asked =>
        IF env.name \notin {"gemini", "openai", "claude", "mock"}
        THEN env.got.exc = "ValueError"
        ELSE /\ env.got.exc = ""
             /\ is_available(env, env.got.v)
             /\ env.got.v.class \in {ProviderClasses[env.name], "MockProvider"}

====
